---- MODULE Spec2Model ----
(***************************************************************************)
(* Reconciliation engine of ss-migrate: the field diff (CompareFields),    *)
(* the plan builder (ConvertDiffToResult / ConvertDiffToResultWithOrder)   *)
(* and the planner glue that feeds them (analyzeSheet,                     *)
(* convertSchemaFields).                                                   *)
(*                                                                         *)
(* Strings that the code splits or joins are sequences of one-character    *)
(* strings, so that "%s.%s" is a real concatenation.                       *)
(***************************************************************************)
EXTENDS Integers, Sequences, FiniteSets, TLC

VARIABLES currentFields, schemaFields, pc, diff, currentOrder,
          result, prevResult, mode, origin

(* The apply command: the schema it loaded, the spreadsheets behind the    *)
(* sheet client, the --dry-run flag, the command's position, the plans of  *)
(* ApplyAll, the resource and change being applied, the ApplyResult being  *)
(* built and those already returned, the calls made to the sheet client,   *)
(* the applyChange invocations so far, and the command's return value.     *)
VARIABLES schemaConfig, store, dryRun, apc, diffs, unread, ri, ci,
          applyResult, results, calls, attempts, exit

plannerVars == <<currentFields, schemaFields, pc, diff, currentOrder,
                 result, prevResult, mode, origin>>

applyVars == <<schemaConfig, store, dryRun, apc, diffs, unread, ri, ci,
               applyResult, results, calls, attempts, exit>>

(* The sheet package's pure functions: the function being evaluated, its   *)
(* argument and its result.                                                *)
VARIABLE eval

vars == <<plannerVars, applyVars, eval>>

----------------------------------------------------------------------------
(* Bounds of the model *)

MaxObserved == 3

MaxSchema == 2

MaxLiteral == 2

MaxPosition == 2

(* Field names, the sheet name, and the attribute values fields may carry *)
Names == {<<"a">>, <<"b">>, <<"c">>}

SheetName == <<"S">>

ObservedTypes == {"string"}

SchemaKinds ==
    { [Type |-> "string",  Format |-> "",     Hidden |-> FALSE],
      [Type |-> "integer", Format |-> "",     Hidden |-> FALSE],
      [Type |-> "string",  Format |-> "date", Hidden |-> FALSE],
      [Type |-> "string",  Format |-> "",     Hidden |-> TRUE] }

----------------------------------------------------------------------------
(* Generic helpers *)

SeqsUpTo(S, n) == UNION { [1..k -> S] : k \in 0..n }

Range(s) == { s[i] : i \in 1..Len(s) }

NamesOf(fields) == [i \in 1..Len(fields) |-> fields[i].Name]

RECURSIVE Flatten(_)
Flatten(ss) == IF ss = <<>> THEN <<>> ELSE Head(ss) \o Flatten(Tail(ss))

Perms(S) == { p \in [1..Cardinality(S) -> S] : Range(p) = S }

----------------------------------------------------------------------------
(* Planner glue: how the two inputs of CompareFields are produced *)

(* analyzeSheet: one FieldInfo per non-empty header, Name and Type only *)
ObservedField(name, type) ==
    [Name |-> name, Type |-> type, Format |-> "", Hidden |-> FALSE, Position |-> 0]

(* convertSchemaFields: Position is the 0-based index in the schema *)
convertSchemaFields(fields) ==
    [i \in 1..Len(fields) |->
        [Name |-> fields[i].Name, Type |-> fields[i].Type,
         Format |-> fields[i].Format, Hidden |-> fields[i].Hidden,
         Position |-> i - 1]]

SchemaFieldSet ==
    { [Name |-> n, Type |-> k.Type, Format |-> k.Format, Hidden |-> k.Hidden] :
        n \in Names, k \in SchemaKinds }

ObservedFieldSet == { ObservedField(n, t) : n \in Names, t \in ObservedTypes }

(* FieldInfo literals of a hand-written SheetDiff: any Position, -1 included *)
LiteralFieldSet ==
    { [Name |-> n, Type |-> "string", Format |-> "", Hidden |-> FALSE, Position |-> p] :
        n \in Names, p \in (-1)..MaxPosition }

----------------------------------------------------------------------------
(* CompareFields *)

(* formatFieldType: "type(format)" when the format is non-empty *)
formatFieldType(fieldType, format) ==
    IF format # "" THEN <<fieldType, "(", format, ")">> ELSE <<fieldType>>

(* A Go map filled by a loop of assignments m[f.Name] = f: last one wins *)
RECURSIVE BuildMap(_, _)
BuildMap(fields, m) ==
    IF fields = <<>> THEN m
    ELSE BuildMap(Tail(fields), (Head(fields).Name :> Head(fields)) @@ m)

EmptyMap == [n \in {} |-> <<>>]

Exists(m, name) == name \in DOMAIN m

(* variant: the existence test is missing, every schema field is added *)
RECURSIVE AddLoopUnchecked(_, _, _)
AddLoopUnchecked(sch, currentMap, acc) ==
    IF sch = <<>> THEN acc
    ELSE AddLoopUnchecked(Tail(sch), currentMap, Append(acc, Head(sch)))

(* variant: a fresh FieldInfo is built from the name and type, Position lost *)
RECURSIVE AddLoopNoPosition(_, _, _)
AddLoopNoPosition(sch, currentMap, acc) ==
    IF sch = <<>> THEN acc
    ELSE AddLoopNoPosition(Tail(sch), currentMap,
                 IF ~Exists(currentMap, Head(sch).Name)
                 THEN Append(acc, [Head(sch) EXCEPT !.Position = 0]) ELSE acc)

(* first loop: schema fields whose name is not a key of currentMap *)
RECURSIVE AddLoop(_, _, _)
AddLoop(sch, currentMap, acc) ==
    IF sch = <<>> THEN acc
    ELSE AddLoop(Tail(sch), currentMap,
                 IF ~Exists(currentMap, Head(sch).Name)
                 THEN Append(acc, Head(sch)) ELSE acc)

(* variant: removals are pushed to the front, reversing observed order *)
RECURSIVE RemoveLoopPrepend(_, _, _)
RemoveLoopPrepend(cur, schemaMap, acc) ==
    IF cur = <<>> THEN acc
    ELSE RemoveLoopPrepend(Tail(cur), schemaMap,
                    IF ~Exists(schemaMap, Head(cur).Name)
                    THEN <<Head(cur)>> \o acc ELSE acc)

(* second loop: current fields whose name is not a key of schemaMap *)
RECURSIVE RemoveLoop(_, _, _)
RemoveLoop(cur, schemaMap, acc) ==
    IF cur = <<>> THEN acc
    ELSE RemoveLoop(Tail(cur), schemaMap,
                    IF ~Exists(schemaMap, Head(cur).Name)
                    THEN Append(acc, Head(cur)) ELSE acc)

TypeChanged(currentField, schemaField) ==
    currentField.Type # schemaField.Type \/ currentField.Format # schemaField.Format

(* variant: the hidden flag is not compared *)
HiddenIgnored(currentField, schemaField) == FALSE

HiddenChanged(currentField, schemaField) ==
    currentField.Hidden # schemaField.Hidden

(* the []string changes joined into the Description *)
ModifyDescription(currentField, schemaField) ==
    (IF TypeChanged(currentField, schemaField)
     THEN << <<"type from">> \o formatFieldType(currentField.Type, currentField.Format)
             \o <<"to">> \o formatFieldType(schemaField.Type, schemaField.Format) >>
     ELSE <<>>)
    \o
    (IF HiddenChanged(currentField, schemaField)
     THEN (IF schemaField.Hidden THEN << <<"hide column">> >> ELSE << <<"show column">> >>)
     ELSE <<>>)

MakeFieldDiff(currentField, schemaField) ==
    [Name |-> schemaField.Name, Type |-> "MODIFY",
     OldType |-> currentField.Type, NewType |-> schemaField.Type,
     OldFormat |-> currentField.Format, NewFormat |-> schemaField.Format,
     OldHidden |-> currentField.Hidden, NewHidden |-> schemaField.Hidden,
     Description |-> ModifyDescription(currentField, schemaField)]

(* third loop: one FieldDiff per schema field that exists and differs *)
RECURSIVE ModifyLoop(_, _, _)
ModifyLoop(sch, currentMap, acc) ==
    IF sch = <<>> THEN acc
    ELSE LET schemaField == Head(sch)
         IN  ModifyLoop(Tail(sch), currentMap,
               IF Exists(currentMap, schemaField.Name)
               THEN LET currentField == currentMap[schemaField.Name]
                        hasChanges == TypeChanged(currentField, schemaField)
                                      \/ HiddenChanged(currentField, schemaField)
                    IN  IF hasChanges
                        THEN Append(acc, MakeFieldDiff(currentField, schemaField))
                        ELSE acc
               ELSE acc)

(* variant: every name is taken, pending additions and removals included *)
RECURSIVE OrderLoopUnfiltered(_, _, _)
OrderLoopUnfiltered(fields, otherMap, acc) ==
    IF fields = <<>> THEN acc
    ELSE OrderLoopUnfiltered(Tail(fields), otherMap, Append(acc, Head(fields).Name))

(* names of the fields of one list that are keys of the other list's map *)
RECURSIVE OrderLoop(_, _, _)
OrderLoop(fields, otherMap, acc) ==
    IF fields = <<>> THEN acc
    ELSE OrderLoop(Tail(fields), otherMap,
                   IF Exists(otherMap, Head(fields).Name)
                   THEN Append(acc, Head(fields).Name) ELSE acc)

ExpectedOrderOf(cur, sch) == OrderLoop(sch, BuildMap(cur, EmptyMap), <<>>)

CurrentOrderOf(cur, sch) == OrderLoop(cur, BuildMap(sch, EmptyMap), <<>>)

(* the final comparison, entered only when the two lengths agree *)
OrdersDiffer(cOrder, eOrder) ==
    /\ Len(cOrder) = Len(eOrder)
    /\ \E i \in 1..Len(cOrder) : cOrder[i] # eOrder[i]

CompareFields(cur, sch) ==
    LET currentMap == BuildMap(cur, EmptyMap)
        schemaMap  == BuildMap(sch, EmptyMap)
    IN  [FieldsToAdd     |-> AddLoop(sch, currentMap, <<>>),
         FieldsToRemove  |-> RemoveLoop(cur, schemaMap, <<>>),
         FieldsToModify  |-> ModifyLoop(sch, currentMap, <<>>),
         FieldsToReorder |-> OrdersDiffer(CurrentOrderOf(cur, sch), ExpectedOrderOf(cur, sch)),
         ExpectedOrder   |-> ExpectedOrderOf(cur, sch)]

----------------------------------------------------------------------------
(* ConvertDiffToResult / ConvertDiffToResultWithOrder *)

(* strings.Join(parts, sep) over strings kept as character sequences *)
RECURSIVE Join(_, _)
Join(parts, sep) ==
    IF parts = <<>> THEN <<>>
    ELSE IF Len(parts) = 1 THEN parts[1]
    ELSE parts[1] \o sep \o Join(Tail(parts), sep)

(* fmt.Sprintf("%s.%s", sheetName, field.Name) *)
FieldPath(sheetName, name) == sheetName \o <<".">> \o name

AddChange(sheetName, field) ==
    [Type |-> "ADD",
     Path |-> FieldPath(sheetName, field.Name),
     Description |-> <<"Add new field '">> \o field.Name \o <<"' of type ">>
                     \o formatFieldType(field.Type, field.Format)
                     \o (IF field.Position >= 0
                         THEN <<" at position ", ToString(field.Position + 1)>>
                         ELSE <<>>),
     OldValue |-> <<"nil">>,
     NewValue |-> <<"FieldInfo", field>>]

RemoveChange(sheetName, field) ==
    [Type |-> "REMOVE",
     Path |-> FieldPath(sheetName, field.Name),
     Description |-> <<"Remove field '">> \o field.Name \o <<"'">>,
     OldValue |-> <<"FieldInfo", field>>,
     NewValue |-> <<"nil">>]

ModifyChange(sheetName, field) ==
    [Type |-> "MODIFY",
     Path |-> FieldPath(sheetName, field.Name),
     Description |-> Join(field.Description, <<", ">>),
     OldValue |-> <<"FieldDiff", field>>,
     NewValue |-> <<"FieldDiff", field>>]

(* variant: the reorder path is built like a field path *)
ReorderChangeFieldPath(sheetName, expectedOrder) ==
    [Type |-> "REORDER",
     Path |-> FieldPath(sheetName, <<>>),
     Description |-> <<"Reorder fields to match schema: ">> \o Join(expectedOrder, <<", ">>),
     OldValue |-> <<"nil">>,
     NewValue |-> <<"Order", expectedOrder>>]

ReorderChange(sheetName, expectedOrder) ==
    [Type |-> "REORDER",
     Path |-> sheetName,
     Description |-> <<"Reorder fields to match schema: ">> \o Join(expectedOrder, <<", ">>),
     OldValue |-> <<"nil">>,
     NewValue |-> <<"Order", expectedOrder>>]

(* changesByField[name] = append(changesByField[name], change), item by item *)
RECURSIVE CollectLoop(_, _, _)
CollectLoop(names, changes, m) ==
    IF names = <<>> THEN m
    ELSE LET old == IF Head(names) \in DOMAIN m THEN m[Head(names)] ELSE <<>>
         IN  CollectLoop(Tail(names), Tail(changes),
                         (Head(names) :> Append(old, Head(changes))) @@ m)

ChangesByField(d, sheetName) ==
    LET adds == [i \in 1..Len(d.FieldsToAdd) |-> AddChange(sheetName, d.FieldsToAdd[i])]
        rems == [i \in 1..Len(d.FieldsToRemove) |-> RemoveChange(sheetName, d.FieldsToRemove[i])]
        mods == [i \in 1..Len(d.FieldsToModify) |-> ModifyChange(sheetName, d.FieldsToModify[i])]
        m1 == CollectLoop(NamesOf(d.FieldsToAdd), adds, EmptyMap)
        m2 == CollectLoop(NamesOf(d.FieldsToRemove), rems, m1)
    IN  CollectLoop(NamesOf(d.FieldsToModify), mods, m2)

(* delete(m, key) *)
MapDelete(m, key) == [k \in (DOMAIN m) \ {key} |-> m[k]]

(* schema-order pass: emit and delete the changes of each schema field; *)
(* yields the emitted changes and the map that is left                   *)
RECURSIVE SchemaOrderLoop(_, _, _)
SchemaOrderLoop(sch, m, out) ==
    IF sch = <<>> THEN [out |-> out, rest |-> m]
    ELSE IF Head(sch).Name \in DOMAIN m
         THEN SchemaOrderLoop(Tail(sch), MapDelete(m, Head(sch).Name),
                              out \o m[Head(sch).Name])
         ELSE SchemaOrderLoop(Tail(sch), m, out)

(* keys still in changesByField when the "range changesByField" loop starts *)
RemainingKeys(d, sheetName, canonical) ==
    IF Len(canonical) > 0
    THEN DOMAIN SchemaOrderLoop(canonical, ChangesByField(d, sheetName), <<>>).rest
    ELSE {}

(* for _, changes := range changesByField, visiting the keys as iterOrder does *)
RECURSIVE RangeLoop(_, _, _)
RangeLoop(iterOrder, m, out) ==
    IF iterOrder = <<>> THEN out
    ELSE RangeLoop(Tail(iterOrder), m, out \o m[Head(iterOrder)])

(* the exchange sort on Position: for i, for j > i, swap when s[i] > s[j] *)
Swap(s, i, j) == [s EXCEPT ![i] = s[j], ![j] = s[i]]

(* variant: the comparison is reversed, the sort is descending *)
RECURSIVE SortInnerDescending(_, _, _)
SortInnerDescending(s, i, j) ==
    IF j > Len(s) THEN s
    ELSE SortInnerDescending(IF s[i].Position < s[j].Position THEN Swap(s, i, j) ELSE s, i, j + 1)

RECURSIVE SortInner(_, _, _)
SortInner(s, i, j) ==
    IF j > Len(s) THEN s
    ELSE SortInner(IF s[i].Position > s[j].Position THEN Swap(s, i, j) ELSE s, i, j + 1)

RECURSIVE SortOuter(_, _)
SortOuter(s, i) ==
    IF i > Len(s) - 1 THEN s
    ELSE SortOuter(SortInner(s, i, i + 1), i + 1)

SortByPosition(fields) == SortOuter(fields, 1)

OfType(changes, type) == SelectSeq(changes, LAMBDA c : c.Type = type)

(* for each field of the list: the changes of that kind kept under its name *)
RECURSIVE TypedLoop(_, _, _, _)
TypedLoop(names, m, type, out) ==
    IF names = <<>> THEN out
    ELSE TypedLoop(Tail(names), m, type,
                   IF Head(names) \in DOMAIN m
                   THEN out \o OfType(m[Head(names)], type) ELSE out)

(* the parts with the modification part ahead of the removal part *)
SummaryPartsModifyFirst(d) ==
    (IF Len(d.FieldsToAdd) > 0
     THEN << <<ToString(Len(d.FieldsToAdd)), " field(s) to add">> >> ELSE <<>>)
    \o (IF Len(d.FieldsToModify) > 0
        THEN << <<ToString(Len(d.FieldsToModify)), " field(s) to modify">> >> ELSE <<>>)
    \o (IF Len(d.FieldsToRemove) > 0
        THEN << <<ToString(Len(d.FieldsToRemove)), " field(s) to remove">> >> ELSE <<>>)
    \o (IF d.FieldsToReorder THEN << <<"fields need reordering">> >> ELSE <<>>)

SummaryParts(d) ==
    (IF Len(d.FieldsToAdd) > 0
     THEN << <<ToString(Len(d.FieldsToAdd)), " field(s) to add">> >> ELSE <<>>)
    \o (IF Len(d.FieldsToRemove) > 0
        THEN << <<ToString(Len(d.FieldsToRemove)), " field(s) to remove">> >> ELSE <<>>)
    \o (IF Len(d.FieldsToModify) > 0
        THEN << <<ToString(Len(d.FieldsToModify)), " field(s) to modify">> >> ELSE <<>>)
    \o (IF d.FieldsToReorder THEN << <<"fields need reordering">> >> ELSE <<>>)

generateSummary(d, sheetName) ==
    IF Len(SummaryParts(d)) = 0
    THEN <<"Sheet '">> \o sheetName \o <<"' is up to date">>
    ELSE <<"Sheet '">> \o sheetName \o <<"': ">> \o Join(SummaryParts(d), <<", ">>)

(* canonical = <<>> stands for both nil and the empty slice; iterOrder is *)
(* the order in which the runtime walks the keys left in changesByField   *)
ConvertDiffToResultWithOrder(d, sheetName, canonical, iterOrder) ==
    LET changesByField == ChangesByField(d, sheetName)
        fieldChanges ==
            IF Len(canonical) > 0
            THEN LET pass == SchemaOrderLoop(canonical, changesByField, <<>>)
                 IN  RangeLoop(iterOrder, pass.rest, pass.out)
            ELSE LET sortedFieldsToAdd == SortByPosition(d.FieldsToAdd)
                     a == TypedLoop(NamesOf(sortedFieldsToAdd), changesByField, "ADD", <<>>)
                     r == TypedLoop(NamesOf(d.FieldsToRemove), changesByField, "REMOVE", a)
                 IN  TypedLoop(NamesOf(d.FieldsToModify), changesByField, "MODIFY", r)
    IN  [Changes |-> IF d.FieldsToReorder
                     THEN Append(fieldChanges, ReorderChange(sheetName, d.ExpectedOrder))
                     ELSE fieldChanges,
         HasChanges |-> \/ Len(d.FieldsToAdd) > 0
                        \/ Len(d.FieldsToRemove) > 0
                        \/ Len(d.FieldsToModify) > 0
                        \/ d.FieldsToReorder,
         Summary |-> generateSummary(d, sheetName)]

ConvertDiffToResult(d, sheetName) ==
    ConvertDiffToResultWithOrder(d, sheetName, <<>>, <<>>)

----------------------------------------------------------------------------
(* State machine *)

NoDiff == [FieldsToAdd |-> <<>>, FieldsToRemove |-> <<>>, FieldsToModify |-> <<>>,
           FieldsToReorder |-> FALSE, ExpectedOrder |-> <<>>]

NoResult == [Changes |-> <<>>, HasChanges |-> FALSE, Summary |-> <<>>]

(* the planner's inputs: observed fields of a sheet and the fields of a resource *)
InitPlanner ==
    /\ currentFields \in SeqsUpTo(ObservedFieldSet, MaxObserved)
    /\ \E fields \in SeqsUpTo(SchemaFieldSet, MaxSchema) :
          schemaFields = convertSchemaFields(fields)
    /\ pc = "input"
    /\ diff = NoDiff
    /\ origin = "planner"

(* a caller that hands ConvertDiffToResult a SheetDiff it wrote itself, *)
(* with FieldsToAdd in any order                                        *)
InitLiteral ==
    /\ currentFields = <<>>
    /\ schemaFields = <<>>
    /\ pc = "compared"
    /\ \E adds \in SeqsUpTo(LiteralFieldSet, MaxLiteral) :
          diff = [NoDiff EXCEPT !.FieldsToAdd = adds]
    /\ origin = "literal"

(* no function of the sheet package is being evaluated *)
NoEval ==
    [fn |-> "none", data |-> <<>>, pattern |-> <<>>, col |-> 0,
     type |-> "", letter |-> <<>>, index |-> 0, pc |-> "idle"]

(* the apply command at rest, while only the planner runs *)
ApplyIdle ==
    /\ schemaConfig = [Resources |-> <<>>]
    /\ store = [k \in {} |-> <<>>]
    /\ dryRun = FALSE
    /\ apc = "idle"
    /\ diffs = <<>>
    /\ unread = {}
    /\ ri = 0
    /\ ci = 0
    /\ applyResult = [Success |-> TRUE, Message |-> <<>>, ChangesApplied |-> 0, Errors |-> <<>>]
    /\ results = <<>>
    /\ calls = <<>>
    /\ attempts = <<>>
    /\ exit = "running"

Init ==
    /\ InitPlanner \/ InitLiteral
    /\ currentOrder = <<>>
    /\ result = NoResult
    /\ prevResult = NoResult
    /\ mode = "none"
    /\ ApplyIdle
    /\ eval = NoEval

(* Planner: diff := CompareFields(currentFields, schemaFields) *)
Compare ==
    /\ pc = "input"
    /\ diff' = CompareFields(currentFields, schemaFields)
    /\ currentOrder' = CurrentOrderOf(currentFields, schemaFields)
    /\ pc' = "compared"
    /\ UNCHANGED <<currentFields, schemaFields, result, prevResult, mode, origin>>
    /\ UNCHANGED <<applyVars, eval>>

(* result := ConvertDiffToResult(diff, resource.Name); a later call on the *)
(* same diff keeps the earlier result in prevResult                        *)
Convert ==
    /\ \/ pc = "compared"
       \/ pc = "planned" /\ mode = "plain"
    /\ result' = ConvertDiffToResult(diff, SheetName)
    /\ prevResult' = result
    /\ mode' = "plain"
    /\ pc' = "planned"
    /\ UNCHANGED <<currentFields, schemaFields, diff, currentOrder, origin>>
    /\ UNCHANGED <<applyVars, eval>>

(* result := ConvertDiffToResultWithOrder(diff, name, schemaFields) *)
ConvertWithOrder ==
    /\ \/ pc = "compared"
       \/ pc = "planned" /\ mode = "ordered"
    /\ \E iterOrder \in Perms(RemainingKeys(diff, SheetName, schemaFields)) :
          result' = ConvertDiffToResultWithOrder(diff, SheetName, schemaFields, iterOrder)
    /\ prevResult' = result
    /\ mode' = "ordered"
    /\ pc' = "planned"
    /\ UNCHANGED <<currentFields, schemaFields, diff, currentOrder, origin>>
    /\ UNCHANGED <<applyVars, eval>>

Next ==
    \/ Compare
    \/ Convert
    \/ ConvertWithOrder

Spec == Init /\ [][Next]_vars

----------------------------------------------------------------------------
(* Text helpers *)

Alphabet ==
    <<"A", "B", "C", "D", "E", "F", "G", "H", "I", "J", "K", "L", "M",
      "N", "O", "P", "Q", "R", "S", "T", "U", "V", "W", "X", "Y", "Z">>

LowerAlphabet ==
    <<"a", "b", "c", "d", "e", "f", "g", "h", "i", "j", "k", "l", "m",
      "n", "o", "p", "q", "r", "s", "t", "u", "v", "w", "x", "y", "z">>

Digits == {"0", "1", "2", "3", "4", "5", "6", "7", "8", "9"}

WhiteSpace == {" ", "\t", "\n", "\r"}

IsUpper(c) == \E i \in 1..Len(Alphabet) : Alphabet[i] = c

LetterIndex(c) == CHOOSE i \in 1..Len(Alphabet) : Alphabet[i] = c

DigitValue(c) == CHOOSE n \in 0..9 : ToString(n) = c

(* strings.Split(s, sep) for a one-character separator *)
RECURSIVE SplitLoop(_, _, _, _)
SplitLoop(s, sep, part, out) ==
    IF s = <<>> THEN Append(out, part)
    ELSE IF Head(s) = sep THEN SplitLoop(Tail(s), sep, <<>>, Append(out, part))
    ELSE SplitLoop(Tail(s), sep, Append(part, Head(s)), out)

Split(s, sep) == SplitLoop(s, sep, <<>>, <<>>)

(* strings.ToLower *)
ToLower(s) ==
    [i \in 1..Len(s) |-> IF IsUpper(s[i]) THEN LowerAlphabet[LetterIndex(s[i])] ELSE s[i]]

(* strings.TrimSpace *)
RECURSIVE TrimLeft(_)
TrimLeft(s) ==
    IF s # <<>> /\ Head(s) \in WhiteSpace THEN TrimLeft(Tail(s)) ELSE s

RECURSIVE TrimRight(_)
TrimRight(s) ==
    IF s # <<>> /\ s[Len(s)] \in WhiteSpace THEN TrimRight(SubSeq(s, 1, Len(s) - 1)) ELSE s

TrimSpace(s) == TrimRight(TrimLeft(s))

(* strings.Contains(s, c) for a one-character c *)
Contains(s, c) == \E i \in 1..Len(s) : s[i] = c

----------------------------------------------------------------------------
(* sheet package: column letters, spreadsheet IDs, type inference *)

(* ColumnToLetter: for col >= 0 { result = 'A'+col%26 + result; col = col/26 - 1 } *)
RECURSIVE ColumnToLetterLoop(_, _)
ColumnToLetterLoop(col, out) ==
    IF col >= 0
    THEN ColumnToLetterLoop((col \div 26) - 1, <<Alphabet[(col % 26) + 1]>> \o out)
    ELSE out

(* variant: every index is given the first column's letter *)
ColumnToLetterFirst(col) == <<"A">>

ColumnToLetter(col) == ColumnToLetterLoop(col, <<>>)

(* LetterToColumn: result = result*26 + (ch-'A'+1); result-- at the last letter *)
RECURSIVE LetterToColumnLoop(_, _, _)
LetterToColumnLoop(letter, i, acc) ==
    IF i >= Len(letter) THEN acc
    ELSE LET r == acc * 26 + LetterIndex(letter[i + 1])
         IN  LetterToColumnLoop(letter, i + 1, IF i = Len(letter) - 1 THEN r - 1 ELSE r)

(* variant: the index is left 1-based *)
LetterToColumnOneBased(letter) ==
    LetterToColumnLoop(letter, 0, 0) + (IF letter = <<>> THEN 0 ELSE 1)

LetterToColumn(letter) == LetterToColumnLoop(letter, 0, 0)

(* A locator URL after url.Parse: its host and its path; the elements of   *)
(* the path are "/" and the text between two "/"                           *)
SpreadsheetIDs == {<<"X">>, <<"Y">>}

UrlOf(id) ==
    [Host |-> "docs.google.com", Path |-> <<"/", "spreadsheets", "/", "d", "/">> \o id \o <<"/", "edit">>]

BadUrl == [Host |-> "docs.google.com", Path |-> <<"/", "spreadsheets", "/", "X">>]

GoodUrls == { UrlOf(id) : id \in SpreadsheetIDs }

(* strings.Contains(parsedURL.Host, "docs.google.com") on the hosts of the model *)
IsSheetsHost(host) == host \in {"docs.google.com"}

(* the index loop of ExtractSpreadsheetID over the path split at "/" *)
RECURSIVE FindIDLoop(_, _)
FindIDLoop(parts, i) ==
    IF i > Len(parts) THEN [Err |-> "spreadsheet ID not found in URL", ID |-> <<>>]
    ELSE IF parts[i] = <<"d">> /\ i + 1 <= Len(parts) THEN [Err |-> "nil", ID |-> parts[i + 1]]
    ELSE FindIDLoop(parts, i + 1)

ExtractSpreadsheetID(sheetURL) ==
    IF ~IsSheetsHost(sheetURL.Host) THEN [Err |-> "not a Google Sheets URL", ID |-> <<>>]
    ELSE FindIDLoop(Split(sheetURL.Path, "/"), 1)

(* strings.Contains(s, sub) for a non-empty sub *)
ContainsText(s, sub) ==
    \E i \in 1..(Len(s) - Len(sub) + 1) : SubSeq(s, i, i + Len(sub) - 1) = sub

IntegerPatterns == {<<"0">>, <<"#", ",", "#", "#", "0">>, <<"#", ",", "#", "#", "#">>, <<"0", ".", "#", "#", "#", "#", "#">>, <<"#", ".", "#", "#", "#", "#", "#">>}

NumberPatterns == {<<"0", ".", "0", "0">>, <<"#", ",", "#", "#", "0", ".", "0", "0">>, <<"0", ".", "0">>, <<"#", ",", "#", "#", "0", ".", "0">>}

DateTokens == {<<"y", "y", "y", "y">>, <<"y", "y">>, <<"m", "m">>, <<"d", "d">>, <<"h", "h">>, <<"s", "s">>}

CurrencySymbols == {"$", "¥", "€", "£"}

(* variant: the percent sign and the currency symbols are looked for before *)
(* the date and time tokens                                                 *)
InferTypeFromFormatPercentFirst(pattern) ==
    IF pattern = <<>> THEN ""
    ELSE IF pattern \in IntegerPatterns THEN "integer"
    ELSE IF pattern \in NumberPatterns THEN "number"
    ELSE IF pattern = <<"@">> THEN "string"
    ELSE IF Contains(pattern, "%") \/ \E c \in CurrencySymbols : Contains(pattern, c)
    THEN "number"
    ELSE IF \E token \in DateTokens : ContainsText(ToLower(pattern), token) THEN "datetime"
    ELSE ""

(* InferTypeFromFormat *)
InferTypeFromFormat(pattern) ==
    IF pattern = <<>> THEN ""
    ELSE IF pattern \in IntegerPatterns THEN "integer"
    ELSE IF pattern \in NumberPatterns THEN "number"
    ELSE IF pattern = <<"@">> THEN "string"
    ELSE IF \E token \in DateTokens : ContainsText(ToLower(pattern), token) THEN "datetime"
    ELSE IF Contains(pattern, "%") THEN "number"
    ELSE IF \E c \in CurrencySymbols : Contains(pattern, c) THEN "number"
    ELSE ""

(* a nil entry of a column's data; cells are sequences of characters *)
Nil == <<"nil">>

(* isNumeric *)
RECURSIVE NumericLoop(_, _, _)
NumericLoop(s, i, dotCount) ==
    IF i > Len(s) THEN TRUE
    ELSE LET ch == s[i]
         IN  IF ch = "." /\ dotCount + 1 > 1 THEN FALSE
             ELSE IF ch # "." /\ ch \notin Digits /\ ch # "-" /\ ch # "+" THEN FALSE
             ELSE IF (ch = "-" \/ ch = "+") /\ i # 1 THEN FALSE
             ELSE NumericLoop(s, i + 1, IF ch = "." THEN dotCount + 1 ELSE dotCount)

isNumeric(s) ==
    IF s = <<>> THEN FALSE
    ELSE NumericLoop(SelectSeq(s, LAMBDA c : c # ","), 1, 0)

(* hasDecimal *)
hasDecimal(data) ==
    \E i \in 1..Len(data) : data[i] # Nil /\ Contains(data[i], ".")

(* n digits of s from position i on (positions count from 1) *)
DigitsAt(s, i, n) == i + n - 1 <= Len(s) /\ \A k \in i..(i + n - 1) : s[k] \in Digits

CharAt(s, i, c) == i <= Len(s) /\ s[i] = c

(* the number written by the n digits of s from position i on *)
RECURSIVE NumberLoop(_, _, _, _)
NumberLoop(s, i, n, acc) ==
    IF n = 0 THEN acc ELSE NumberLoop(s, i + 1, n - 1, acc * 10 + DigitValue(s[i]))

NumberAt(s, i, n) == NumberLoop(s, i, n, 0)

(* ^\d{4}-\d{2}-\d{2} followed by sep and \d{2}:\d{2}:\d{2} *)
MatchesTimestamp(s, sep) ==
    /\ DigitsAt(s, 1, 4) /\ CharAt(s, 5, "-") /\ DigitsAt(s, 6, 2) /\ CharAt(s, 8, "-")
    /\ DigitsAt(s, 9, 2) /\ CharAt(s, 11, sep)
    /\ DigitsAt(s, 12, 2) /\ CharAt(s, 14, ":") /\ DigitsAt(s, 15, 2) /\ CharAt(s, 17, ":")
    /\ DigitsAt(s, 18, 2)

(* ^\d{4}-\d{2}-\d{2}$ *)
MatchesIsoDate(s) ==
    /\ Len(s) = 10
    /\ DigitsAt(s, 1, 4) /\ CharAt(s, 5, "-") /\ DigitsAt(s, 6, 2) /\ CharAt(s, 8, "-")
    /\ DigitsAt(s, 9, 2)

(* ^\d{1,2}<sep>\d{1,2}<sep>\d{4} *)
MatchesDayFirst(s, sep) ==
    \E m \in 1..2, d \in 1..2 :
        /\ DigitsAt(s, 1, m) /\ CharAt(s, m + 1, sep)
        /\ DigitsAt(s, m + 2, d) /\ CharAt(s, m + d + 2, sep)
        /\ DigitsAt(s, m + d + 3, 4)

DaysIn(month, year) ==
    IF month = 2
    THEN (IF year % 4 = 0 /\ (year % 100 # 0 \/ year % 400 = 0) THEN 29 ELSE 28)
    ELSE IF month \in {4, 6, 9, 11} THEN 30 ELSE 31

(* time.Parse("2006/01/02", s): the one layout no pattern above covers *)
ParsesSlashDate(s) ==
    /\ Len(s) = 10
    /\ DigitsAt(s, 1, 4) /\ CharAt(s, 5, "/") /\ DigitsAt(s, 6, 2) /\ CharAt(s, 8, "/")
    /\ DigitsAt(s, 9, 2)
    /\ NumberAt(s, 6, 2) \in 1..12
    /\ NumberAt(s, 9, 2) \in 1..DaysIn(NumberAt(s, 6, 2), NumberAt(s, 1, 4))

(* isDateTime: the patterns, then the layouts; every layout but            *)
(* "2006/01/02" accepts only text that one of the patterns matches         *)
isDateTime(s) ==
    IF s = <<>> THEN FALSE
    ELSE \/ MatchesTimestamp(s, "T")
         \/ MatchesTimestamp(s, " ")
         \/ MatchesIsoDate(s)
         \/ MatchesDayFirst(s, "/")
         \/ MatchesDayFirst(s, "-")
         \/ ParsesSlashDate(s)

NoFlags ==
    [hasNumber |-> FALSE, hasString |-> FALSE, hasBoolean |-> FALSE,
     hasDateTime |-> FALSE, allDateTime |-> TRUE]

(* the loop of InferColumnType over the values of a column *)
RECURSIVE InferLoop(_, _)
InferLoop(data, f) ==
    IF data = <<>> THEN f
    ELSE IF Head(data) = Nil THEN InferLoop(Tail(data), f)
    ELSE LET strVal == TrimSpace(Head(data))
         IN  IF ToLower(strVal) \in {<<"t", "r", "u", "e">>, <<"f", "a", "l", "s", "e">>}
             THEN InferLoop(Tail(data), [f EXCEPT !.hasBoolean = TRUE, !.allDateTime = FALSE])
             ELSE LET f1 == IF isDateTime(strVal)
                            THEN [f EXCEPT !.hasDateTime = TRUE]
                            ELSE [f EXCEPT !.allDateTime = FALSE]
                      f2 == IF isNumeric(strVal)
                            THEN [f1 EXCEPT !.hasNumber = TRUE]
                            ELSE IF strVal # <<>> /\ ~isDateTime(strVal)
                                 THEN [f1 EXCEPT !.hasString = TRUE]
                                 ELSE f1
                  IN  InferLoop(Tail(data), f2)

(* variant: a numeric value decides before an unclassifiable one *)
InferColumnTypeNumberFirst(data) ==
    IF Len(data) = 0 THEN "string"
    ELSE LET f == InferLoop(data, NoFlags)
         IN  IF f.hasDateTime /\ f.allDateTime THEN "datetime"
             ELSE IF f.hasNumber THEN (IF hasDecimal(data) THEN "number" ELSE "integer")
             ELSE IF f.hasString THEN "string"
             ELSE IF f.hasBoolean THEN "boolean"
             ELSE "string"

InferColumnType(data) ==
    IF Len(data) = 0 THEN "string"
    ELSE LET f == InferLoop(data, NoFlags)
         IN  IF f.hasDateTime /\ f.allDateTime THEN "datetime"
             ELSE IF f.hasString THEN "string"
             ELSE IF f.hasNumber THEN (IF hasDecimal(data) THEN "number" ELSE "integer")
             ELSE IF f.hasBoolean THEN "boolean"
             ELSE "string"

----------------------------------------------------------------------------
(* The spreadsheets behind the sheet client.  A sheet is its columns up to *)
(* the last non-blank one; a column is its header cell and the cell of the *)
(* one data row below it.                                                  *)

SheetTitles == {<<"S">>, <<"S", ".", "T">>}

SheetKeys == SpreadsheetIDs \X SheetTitles

DefaultHeaderRow == 1

BlankColumn == [Header |-> <<>>, Cell |-> <<>>]

RECURSIVE DropBlankTail(_)
DropBlankTail(cols) ==
    IF cols # <<>> /\ cols[Len(cols)] = BlankColumn
    THEN DropBlankTail(SubSeq(cols, 1, Len(cols) - 1))
    ELSE cols

(* a row as the service returns it: the cells up to the last non-empty one *)
RECURSIVE DropEmptyTail(_)
DropEmptyTail(row) ==
    IF row # <<>> /\ row[Len(row)] = <<>>
    THEN DropEmptyTail(SubSeq(row, 1, Len(row) - 1))
    ELSE row

(* the 0-based column a column letter names *)
RECURSIVE A1ColumnLoop(_, _)
A1ColumnLoop(letters, acc) ==
    IF letters = <<>> THEN acc - 1
    ELSE A1ColumnLoop(Tail(letters), acc * 26 + LetterIndex(Head(letters)))

A1Column(letters) == A1ColumnLoop(letters, 0)

(* fmt.Sprintf("%s!%s%d", sheetName, columnLetter, headerRow) *)
CellRange(sheetName, columnLetter, row) ==
    sheetName \o <<"!">> \o columnLetter \o <<ToString(row)>>

(* the sheet, the column and the row a cell range names *)
ParseCellRange(range) ==
    LET parts   == Split(range, "!")
        cell    == parts[Len(parts)]
        letters == SelectSeq(cell, IsUpper)
    IN  [Sheet  |-> Join(SubSeq(parts, 1, Len(parts) - 1), <<"!">>),
         Column |-> A1Column(letters),
         Row    |-> CHOOSE r \in 1..2 : <<ToString(r)>> = SubSeq(cell, Len(letters) + 1, Len(cell))]

(* GetHeaders: the header row, "" for a nil cell *)
GetHeaders(st, spreadsheetID, sheetName) ==
    LET cols == st[<<spreadsheetID, sheetName>>]
    IN  DropEmptyTail([i \in 1..Len(cols) |-> cols[i].Header])

(* GetColumnData: the values of the column below the header row *)
GetColumnData(st, spreadsheetID, sheetName, column) ==
    LET cols == st[<<spreadsheetID, sheetName>>]
        i    == A1Column(column) + 1
    IN  IF i <= Len(cols) /\ cols[i].Cell # <<>> THEN <<cols[i].Cell>> ELSE <<>>

(* variant: no column is inserted, the sheet stays as it is *)
InsertColumnNowhere(st, spreadsheetID, sheetName, columnIndex) == st

(* InsertColumn: one blank column before the 0-based columnIndex *)
InsertColumn(st, spreadsheetID, sheetName, columnIndex) ==
    LET cols == st[<<spreadsheetID, sheetName>>]
    IN  [st EXCEPT ![<<spreadsheetID, sheetName>>] =
            IF columnIndex >= Len(cols) THEN cols
            ELSE SubSeq(cols, 1, columnIndex) \o <<BlankColumn>>
                 \o SubSeq(cols, columnIndex + 1, Len(cols))]

(* the cell of a range set to value *)
WriteCell(st, spreadsheetID, range, value) ==
    LET r      == ParseCellRange(range)
        cols   == st[<<spreadsheetID, r.Sheet>>]
        wide   == cols \o [k \in 1..(r.Column + 1 - Len(cols)) |-> BlankColumn]
        i      == r.Column + 1
    IN  [st EXCEPT ![<<spreadsheetID, r.Sheet>>] =
            DropBlankTail([wide EXCEPT ![i] =
                IF r.Row = DefaultHeaderRow
                THEN [wide[i] EXCEPT !.Header = value]
                ELSE [wide[i] EXCEPT !.Cell = value]])]

(* UpdateValues with the single value [[value]] *)
UpdateValues(st, spreadsheetID, writeRange, value) ==
    WriteCell(st, spreadsheetID, writeRange, value)

(* variant: the column of the range is deleted, the later ones move left *)
ClearValuesDeleting(st, spreadsheetID, clearRange) ==
    LET r    == ParseCellRange(clearRange)
        cols == st[<<spreadsheetID, r.Sheet>>]
    IN  [st EXCEPT ![<<spreadsheetID, r.Sheet>>] =
            SubSeq(cols, 1, r.Column) \o SubSeq(cols, r.Column + 2, Len(cols))]

(* ClearValues of a one-cell range *)
ClearValues(st, spreadsheetID, clearRange) ==
    WriteCell(st, spreadsheetID, clearRange, <<>>)

----------------------------------------------------------------------------
(* Planner over a schema with several resources *)

(* analyzeSheet: one FieldInfo per non-empty header; dataFail holds the    *)
(* 0-based columns whose GetColumnData call fails                          *)
RECURSIVE AnalyzeLoop(_, _, _, _, _, _, _)
AnalyzeLoop(st, spreadsheetID, sheetName, headers, i, dataFail, fields) ==
    IF i >= Len(headers) THEN fields
    ELSE IF headers[i + 1] = <<>>
    THEN AnalyzeLoop(st, spreadsheetID, sheetName, headers, i + 1, dataFail, fields)
    ELSE LET column == ColumnToLetter(i)
             type   == IF i \in dataFail THEN "string"
                       ELSE InferColumnType(GetColumnData(st, spreadsheetID, sheetName, column))
         IN  AnalyzeLoop(st, spreadsheetID, sheetName, headers, i + 1, dataFail,
                         Append(fields, ObservedField(headers[i + 1], type)))

analyzeSheet(st, spreadsheetID, sheetName, dataFail) ==
    AnalyzeLoop(st, spreadsheetID, sheetName,
                GetHeaders(st, spreadsheetID, sheetName), 0, dataFail, <<>>)

(* variant: a resource whose headers cannot be read is taken to be as the  *)
(* schema says, so that its plan is empty                                  *)
RECURSIVE PlanAllLoopTrusting(_, _, _, _, _, _)
PlanAllLoopTrusting(resources, st, i, headerFail, dataFail, out) ==
    IF i > Len(resources) THEN [Err |-> "nil", Diffs |-> out]
    ELSE LET resource == resources[i]
             id       == ExtractSpreadsheetID(resource.Path)
         IN  IF id.Err # "nil"
             THEN [Err |-> "failed to extract spreadsheet ID", Diffs |-> <<>>]
             ELSE LET current == IF i \in headerFail THEN convertSchemaFields(resource.Fields)
                                 ELSE analyzeSheet(st, id.ID, resource.Name, dataFail)
                      d == CompareFields(current, convertSchemaFields(resource.Fields))
                  IN  PlanAllLoopTrusting(resources, st, i + 1, headerFail, dataFail,
                                          Append(out, ConvertDiffToResult(d, resource.Name)))

(* PlanAll: headerFail holds the indices of the resources whose GetHeaders *)
(* call fails; the first locator without a spreadsheet ID ends the loop    *)
RECURSIVE PlanAllLoop(_, _, _, _, _, _)
PlanAllLoop(resources, st, i, headerFail, dataFail, out) ==
    IF i > Len(resources) THEN [Err |-> "nil", Diffs |-> out]
    ELSE LET resource == resources[i]
             id       == ExtractSpreadsheetID(resource.Path)
         IN  IF id.Err # "nil"
             THEN [Err |-> "failed to extract spreadsheet ID", Diffs |-> <<>>]
             ELSE LET current == IF i \in headerFail THEN <<>>
                                 ELSE analyzeSheet(st, id.ID, resource.Name, dataFail)
                      d == CompareFields(current, convertSchemaFields(resource.Fields))
                  IN  PlanAllLoop(resources, st, i + 1, headerFail, dataFail,
                                  Append(out, ConvertDiffToResult(d, resource.Name)))

PlanAll(sc, st, headerFail, dataFail) ==
    PlanAllLoop(sc.Resources, st, 1, headerFail, dataFail, <<>>)

----------------------------------------------------------------------------
(* Applier *)

(* what one applyChange call leaves behind: its error ("nil" for none),    *)
(* the spreadsheets, and the calls it made to the sheet client             *)
Outcome(err, st, made) == [Err |-> err, Store |-> st, Calls |-> made]

InsertCall(spreadsheetID, sheetName, columnIndex, ok) ==
    [Op |-> "InsertColumn", ID |-> spreadsheetID, Sheet |-> sheetName,
     Column |-> columnIndex, Value |-> <<>>, Ok |-> ok]

UpdateCall(spreadsheetID, range, value, ok) ==
    [Op |-> "UpdateValues", ID |-> spreadsheetID, Sheet |-> ParseCellRange(range).Sheet,
     Column |-> ParseCellRange(range).Column, Value |-> value, Ok |-> ok]

ClearCall(spreadsheetID, range, ok) ==
    [Op |-> "ClearValues", ID |-> spreadsheetID, Sheet |-> ParseCellRange(range).Sheet,
     Column |-> ParseCellRange(range).Column, Value |-> <<>>, Ok |-> ok]

(* the calls of the sheet client that the applier makes; one of them, or   *)
(* none, fails during an applyChange call                                  *)
Failures == {"none", "GetHeaders", "InsertColumn", "UpdateValues", "ClearValues"}

(* 0-based index of the first entry of names equal to name, -1 if none *)
RECURSIVE IndexLoop(_, _, _)
IndexLoop(names, name, i) ==
    IF i >= Len(names) THEN -1
    ELSE IF names[i + 1] = name THEN i
    ELSE IndexLoop(names, name, i + 1)

IndexOf(names, name) == IndexLoop(names, name, 0)

(* variant: the new column always goes to the end *)
InsertIndexLoopAtEnd(fields, headers, i) == Len(headers)

(* addField's search: for i := schemaFieldIndex + 1; i < len(resource.Fields); i++ *)
RECURSIVE InsertIndexLoop(_, _, _)
InsertIndexLoop(fields, headers, i) ==
    IF i >= Len(fields) THEN Len(headers)
    ELSE IF IndexOf(headers, fields[i + 1].Name) # -1
    THEN IndexOf(headers, fields[i + 1].Name)
    ELSE InsertIndexLoop(fields, headers, i + 1)

(* variant: addField without the check on the headers it has read *)
addFieldUnchecked(st, spreadsheetID, sheetName, change, resource, fail) ==
    IF fail = "GetHeaders" THEN Outcome("failed to get headers", st, <<>>)
    ELSE
    LET headers   == GetHeaders(st, spreadsheetID, sheetName)
        fieldInfo == change.NewValue[2]
        schemaFieldIndex == IndexOf(NamesOf(resource.Fields), fieldInfo.Name)
        insertColumnIndex == InsertIndexLoop(resource.Fields, headers, schemaFieldIndex + 1)
        cellRange == CellRange(sheetName, ColumnToLetter(insertColumnIndex), DefaultHeaderRow)
        inserted  == IF insertColumnIndex < Len(headers)
                     THEN InsertColumn(st, spreadsheetID, sheetName, insertColumnIndex)
                     ELSE st
        insertLog == IF insertColumnIndex < Len(headers)
                     THEN <<InsertCall(spreadsheetID, sheetName, insertColumnIndex, TRUE)>>
                     ELSE <<>>
    IN  Outcome("nil", UpdateValues(inserted, spreadsheetID, cellRange, fieldInfo.Name),
                Append(insertLog, UpdateCall(spreadsheetID, cellRange, fieldInfo.Name, TRUE)))

addField(st, spreadsheetID, sheetName, change, resource, fail) ==
    IF fail = "GetHeaders" THEN Outcome("failed to get headers", st, <<>>)
    ELSE IF change.NewValue[1] # "FieldInfo" THEN Outcome("invalid field info in change", st, <<>>)
    ELSE
    LET headers   == GetHeaders(st, spreadsheetID, sheetName)
        fieldInfo == change.NewValue[2]
        schemaFieldIndex == IndexOf(NamesOf(resource.Fields), fieldInfo.Name)
        insertColumnIndex == InsertIndexLoop(resource.Fields, headers, schemaFieldIndex + 1)
        inserts   == insertColumnIndex < Len(headers)
        cellRange == CellRange(sheetName, ColumnToLetter(insertColumnIndex), DefaultHeaderRow)
        inserted  == IF inserts
                     THEN InsertColumn(st, spreadsheetID, sheetName, insertColumnIndex)
                     ELSE st
        insertLog == IF inserts
                     THEN <<InsertCall(spreadsheetID, sheetName, insertColumnIndex, TRUE)>>
                     ELSE <<>>
    IN  IF IndexOf(headers, fieldInfo.Name) # -1
        THEN Outcome("field already exists", st, <<>>)
        ELSE IF schemaFieldIndex = -1
        THEN Outcome("field not found in schema", st, <<>>)
        ELSE IF inserts /\ fail = "InsertColumn"
        THEN Outcome("failed to insert column", st,
                     <<InsertCall(spreadsheetID, sheetName, insertColumnIndex, FALSE)>>)
        ELSE IF fail = "UpdateValues"
        THEN Outcome("failed to add field header", inserted,
                     Append(insertLog, UpdateCall(spreadsheetID, cellRange, fieldInfo.Name, FALSE)))
        ELSE Outcome("nil", UpdateValues(inserted, spreadsheetID, cellRange, fieldInfo.Name),
                     Append(insertLog, UpdateCall(spreadsheetID, cellRange, fieldInfo.Name, TRUE)))

removeField(st, spreadsheetID, sheetName, change, fail) ==
    IF fail = "GetHeaders" THEN Outcome("failed to get headers", st, <<>>)
    ELSE IF change.OldValue[1] # "FieldInfo" THEN Outcome("invalid field info in change", st, <<>>)
    ELSE
    LET headers     == GetHeaders(st, spreadsheetID, sheetName)
        fieldInfo   == change.OldValue[2]
        columnIndex == IndexOf(headers, fieldInfo.Name)
        cellRange   == CellRange(sheetName, ColumnToLetter(columnIndex), DefaultHeaderRow)
    IN  IF columnIndex = -1
        THEN Outcome("field not found", st, <<>>)
        ELSE IF fail = "ClearValues"
        THEN Outcome("failed to clear field header", st,
                     <<ClearCall(spreadsheetID, cellRange, FALSE)>>)
        ELSE Outcome("nil", ClearValues(st, spreadsheetID, cellRange),
                     <<ClearCall(spreadsheetID, cellRange, TRUE)>>)

(* 0 when no resource of the schema has the name, else the index of the first *)
ResourceIndex(sc, sheetName) ==
    IF \E i \in 1..Len(sc.Resources) : sc.Resources[i].Name = sheetName
    THEN CHOOSE i \in 1..Len(sc.Resources) :
            /\ sc.Resources[i].Name = sheetName
            /\ \A j \in 1..(i - 1) : sc.Resources[j].Name # sheetName
    ELSE 0

applyChange(sc, st, change, fail) ==
    LET parts     == Split(change.Path, ".")
        sheetName == parts[1]
        found     == ResourceIndex(sc, sheetName)
        resource  == sc.Resources[found]
        id        == ExtractSpreadsheetID(resource.Path)
    IN  IF Len(parts) < 2 THEN Outcome("invalid change path", st, <<>>)
        ELSE IF found = 0 THEN Outcome("resource not found for sheet", st, <<>>)
        ELSE IF id.Err # "nil" THEN Outcome("failed to extract spreadsheet ID", st, <<>>)
        ELSE IF change.Type = "ADD"
        THEN addField(st, id.ID, sheetName, change, resource, fail)
        ELSE IF change.Type = "REMOVE"
        THEN removeField(st, id.ID, sheetName, change, fail)
        ELSE IF change.Type = "MODIFY"
        THEN Outcome("nil", st, <<>>)
        ELSE Outcome("unsupported change type", st, <<>>)

----------------------------------------------------------------------------
(* The apply command as a state machine *)

MaxApplyFields == 3

MaxApplyHeaders == 2

MaxPairFields == 1

MaxPairHeaders == 1

MaxStoreFailures == 1

SchemaField(name, type) == [Name |-> name, Type |-> type, Format |-> "", Hidden |-> FALSE]

(* the fields of the resource of a one-resource schema *)
ApplyFieldSet ==
    { SchemaField(<<"a">>, "string"), SchemaField(<<"b">>, "integer"),
      SchemaField(<<"c">>, "string") }

(* the fields of the resources of a two-resource schema *)
PairFieldSet == { SchemaField(<<"a">>, "string"), SchemaField(<<"a">>, "integer") }

NonEmptySeqsUpTo(S, n) == SeqsUpTo(S, n) \ {<<>>}

(* a sheet with the given header row; the data cell of column i is "r<i>" *)
SheetWith(headers) ==
    [i \in 1..Len(headers) |-> [Header |-> headers[i], Cell |-> <<"r", ToString(i)>>]]

EmptyStore == [k \in SheetKeys |-> <<>>]

NoApplyResult == [Success |-> TRUE, Message |-> <<>>, ChangesApplied |-> 0, Errors |-> <<>>]

(* one resource "S" and its sheet, whose headers may hold empty cells *)
InitSingle ==
    \E fields \in NonEmptySeqsUpTo(ApplyFieldSet, MaxApplyFields),
       headers \in SeqsUpTo(Names \cup {<<>>}, MaxApplyHeaders) :
        /\ schemaConfig = [Resources |->
              <<[Name |-> <<"S">>, Path |-> UrlOf(<<"X">>), Fields |-> fields]>>]
        /\ store = [EmptyStore EXCEPT ![<<<<"X">>, <<"S">>>>] = SheetWith(headers)]

PairSheets == { SheetWith(h) : h \in SeqsUpTo({<<"a">>, <<"b">>}, MaxPairHeaders) }

Referenced(sc) ==
    { <<ExtractSpreadsheetID(sc.Resources[i].Path).ID, sc.Resources[i].Name>> :
        i \in { j \in 1..Len(sc.Resources) : ExtractSpreadsheetID(sc.Resources[j].Path).Err = "nil" } }

(* two resources: their names may agree or hold a ".", their locators may  *)
(* agree, and the second locator may lack a spreadsheet ID                 *)
InitPair ==
    \E n1, n2 \in SheetTitles, p2 \in GoodUrls \cup {BadUrl},
       f1, f2 \in NonEmptySeqsUpTo(PairFieldSet, MaxPairFields),
       st \in [SheetKeys -> PairSheets] :
        /\ schemaConfig = [Resources |->
              <<[Name |-> n1, Path |-> UrlOf(<<"X">>), Fields |-> f1],
                [Name |-> n2, Path |-> p2, Fields |-> f2]>>]
        /\ \A k \in SheetKeys \ Referenced(schemaConfig) : st[k] = <<>>
        /\ store = st

PlannerIdle ==
    /\ currentFields = <<>>
    /\ schemaFields = <<>>
    /\ pc = "idle"
    /\ diff = NoDiff
    /\ currentOrder = <<>>
    /\ result = NoResult
    /\ prevResult = NoResult
    /\ mode = "none"
    /\ origin = "apply"

InitApply ==
    /\ InitSingle \/ InitPair
    /\ eval = NoEval
    /\ dryRun \in BOOLEAN
    /\ apc = "start"
    /\ diffs = <<>>
    /\ unread = {}
    /\ ri = 0
    /\ ci = 0
    /\ applyResult = NoApplyResult
    /\ results = <<>>
    /\ calls = <<>>
    /\ attempts = <<>>
    /\ exit = "running"
    /\ PlannerIdle

(* the failures of the read calls of one PlanAll run *)
HeaderFailures == SUBSET (1..Len(schemaConfig.Resources))

DataFailures == SUBSET (0..(MaxApplyHeaders - 1))

AnyChanges(ds) == \E i \in 1..Len(ds) : ds[i].HasChanges

(* applyCommand: the plan shown before the confirmation *)
PlanCommand ==
    /\ apc = "start"
    /\ \E headerFail \in HeaderFailures, dataFail \in DataFailures :
          LET plan == PlanAll(schemaConfig, store, headerFail, dataFail)
          IN  IF plan.Err # "nil"
              THEN apc' = "exit" /\ exit' = "failed to generate plan"
              ELSE IF ~AnyChanges(plan.Diffs)
              THEN apc' = "exit" /\ exit' = "nil"
              ELSE apc' = "confirm" /\ exit' = exit
    /\ UNCHANGED <<schemaConfig, store, dryRun, diffs, unread, ri, ci,
                   applyResult, results, calls, attempts>>
    /\ UNCHANGED <<plannerVars, eval>>

(* applyCommand: the confirmation; it is skipped by --dry-run and --yes *)
Confirm ==
    /\ apc = "confirm"
    /\ \E response \in {"--yes", "y", "n", "read error"} :
          IF dryRun \/ response \in {"--yes", "y"}
          THEN apc' = "applyall" /\ exit' = exit
          ELSE IF response = "read error"
          THEN apc' = "exit" /\ exit' = "failed to read response"
          ELSE apc' = "exit" /\ exit' = "nil"
    /\ UNCHANGED <<schemaConfig, store, dryRun, diffs, unread, ri, ci,
                   applyResult, results, calls, attempts>>
    /\ UNCHANGED <<plannerVars, eval>>

(* ApplyAll: the plan the changes are applied from *)
ApplyAllPlan ==
    /\ apc = "applyall"
    /\ \E headerFail \in HeaderFailures, dataFail \in DataFailures :
          LET plan == PlanAll(schemaConfig, store, headerFail, dataFail)
          IN  IF plan.Err # "nil"
              THEN /\ apc' = "exit"
                   /\ exit' = "failed to apply changes"
                   /\ UNCHANGED <<diffs, unread, ri>>
              ELSE /\ apc' = "resource"
                   /\ diffs' = plan.Diffs
                   /\ unread' = headerFail
                   /\ ri' = 1
                   /\ exit' = exit
    /\ UNCHANGED <<schemaConfig, store, dryRun, ci, applyResult, results, calls, attempts>>
    /\ UNCHANGED <<plannerVars, eval>>

(* variant: a dry run reports no change as applied *)
DryRunResultZero(d) ==
    [Success |-> TRUE, Message |-> <<"DRY RUN: Would apply ", ToString(0), " changes">>,
     ChangesApplied |-> 0, Errors |-> <<>>]

(* Apply on a dry run *)
DryRunResult(d) ==
    [Success |-> TRUE,
     Message |-> <<"DRY RUN: Would apply ", ToString(Len(d.Changes)), " changes">>,
     ChangesApplied |-> Len(d.Changes), Errors |-> <<>>]

(* ApplyAll's loop body up to the loop of Apply *)
ApplyResource ==
    /\ apc = "resource"
    /\ ri <= Len(diffs)
    /\ LET d == diffs[ri]
       IN  IF ~d.HasChanges
           THEN /\ results' = Append(results,
                       [Success |-> TRUE,
                        Message |-> <<"No changes for ">> \o schemaConfig.Resources[ri].Name,
                        ChangesApplied |-> 0, Errors |-> <<>>])
                /\ ri' = ri + 1
                /\ UNCHANGED <<apc, ci, applyResult>>
           ELSE IF dryRun
           THEN /\ results' = Append(results, DryRunResult(d))
                /\ ri' = ri + 1
                /\ UNCHANGED <<apc, ci, applyResult>>
           ELSE /\ applyResult' = NoApplyResult
                /\ ci' = 1
                /\ apc' = "change"
                /\ UNCHANGED <<results, ri>>
    /\ UNCHANGED <<schemaConfig, store, dryRun, diffs, unread, calls, attempts, exit>>
    /\ UNCHANGED <<plannerVars, eval>>

(* variant: a change that failed is counted as applied as well *)
RecordCounting(res, change, err) ==
    IF err # "nil"
    THEN [res EXCEPT !.Errors = Append(@, [Path |-> change.Path, Err |-> err]),
                     !.Success = FALSE, !.ChangesApplied = @ + 1]
    ELSE [res EXCEPT !.ChangesApplied = @ + 1]

(* variant: an error ends the count but not the success *)
RecordSilently(res, change, err) ==
    IF err # "nil"
    THEN [res EXCEPT !.Errors = Append(@, [Path |-> change.Path, Err |-> err])]
    ELSE [res EXCEPT !.ChangesApplied = @ + 1]

(* Apply's loop body after applyChange returned err *)
Record(res, change, err) ==
    IF err # "nil"
    THEN [res EXCEPT !.Errors = Append(@, [Path |-> change.Path, Err |-> err]),
                     !.Success = FALSE]
    ELSE [res EXCEPT !.ChangesApplied = @ + 1]

(* the applyChange calls so far in which a call of the sheet client failed *)
StoreFailures ==
    Cardinality({ k \in 1..Len(attempts) :
        attempts[k].Err \in {"failed to get headers", "failed to insert column",
                             "failed to add field header", "failed to clear field header"} })

(* one turn of Apply's loop: applyChange on the next change of the plan *)
ApplyChange ==
    /\ apc = "change"
    /\ ci <= Len(diffs[ri].Changes)
    /\ \E fail \in Failures :
          /\ fail # "none" => StoreFailures < MaxStoreFailures
          /\ LET change == diffs[ri].Changes[ci]
                 o      == applyChange(schemaConfig, store, change, fail)
             IN  /\ store' = o.Store
                 /\ calls' = calls \o o.Calls
                 /\ applyResult' = Record(applyResult, change, o.Err)
                 /\ attempts' = Append(attempts,
                                       [Resource |-> ri, Change |-> change, Err |-> o.Err])
    /\ ci' = ci + 1
    /\ UNCHANGED <<schemaConfig, dryRun, apc, diffs, unread, ri, results, exit>>
    /\ UNCHANGED <<plannerVars, eval>>

ApplyMessage(res) ==
    IF res.Success
    THEN <<"Successfully applied ", ToString(res.ChangesApplied), " changes">>
    ELSE <<"Applied ", ToString(res.ChangesApplied), " changes with ",
           ToString(Len(res.Errors)), " errors">>

(* the end of Apply's loop: the result goes to ApplyAll's results *)
ApplyFinish ==
    /\ apc = "change"
    /\ ci > Len(diffs[ri].Changes)
    /\ results' = Append(results, [applyResult EXCEPT !.Message = ApplyMessage(applyResult)])
    /\ ri' = ri + 1
    /\ apc' = "resource"
    /\ UNCHANGED <<schemaConfig, store, dryRun, diffs, unread, ci, applyResult, calls, attempts, exit>>
    /\ UNCHANGED <<plannerVars, eval>>

(* totalErrors += len(result.Errors) for the results without Success *)
RECURSIVE TotalErrors(_)
TotalErrors(rs) ==
    IF rs = <<>> THEN 0
    ELSE (IF Head(rs).Success THEN 0 ELSE Len(Head(rs).Errors)) + TotalErrors(Tail(rs))

(* variant: the command never reports a failure *)
ExitStatusNil(rs, dry) == "nil"

(* the value applyCommand returns after the summary *)
ExitStatus(rs, dry) ==
    IF dry THEN "nil"
    ELSE IF TotalErrors(rs) > 0 THEN "some changes failed to apply"
    ELSE "nil"

(* applyCommand: the display of the results and the summary *)
Report ==
    /\ apc = "resource"
    /\ ri > Len(diffs)
    /\ exit' = ExitStatus(results, dryRun)
    /\ apc' = "exit"
    /\ UNCHANGED <<schemaConfig, store, dryRun, diffs, unread, ri, ci,
                   applyResult, results, calls, attempts>>
    /\ UNCHANGED <<plannerVars, eval>>

NextApply ==
    \/ PlanCommand
    \/ Confirm
    \/ ApplyAllPlan
    \/ ApplyResource
    \/ ApplyChange
    \/ ApplyFinish
    \/ Report

SpecApply == InitApply /\ [][NextApply]_vars

----------------------------------------------------------------------------
(* The sheet package's pure functions, each evaluated on an argument *)

MaxSamples == 3

MaxPattern == 3

MaxColumn == 730

(* cell values: empty and blank text, booleans, numbers, text, dates *)
SampleValues ==
    {Nil,
     <<>>,
     <<" ">>,
     <<"t", "r", "u", "e">>,
     <<" ", "F", "A", "L", "S", "E">>,
     <<"1", "2">>,
     <<"1", ".", "5">>,
     <<" ", "-", "7", " ">>,
     <<",">>,
     <<"x">>,
     <<"2", "0", "2", "4", "-", "0", "1", "-", "1", "5">>,
     <<"2", "0", "2", "4", "/", "0", "1", "/", "1", "5">>,
     <<"2", "0", "2", "4", "/", "1", "3", "/", "0", "1">>,
     <<"1", "/", "2", "/", "2", "0", "2", "4">>,
     <<"2", "0", "2", "4", "-", "0", "1", "-", "1", "5", "T", "1", "0", ":", "3", "0", ":", "0", "0", ".", "5">>}

(* number format patterns: those of the tests and more, and every short   *)
(* text over the characters that decide the outcome                       *)
PatternChars == {"0", "#", ".", "@", "m", "M", "d", "%", "$"}

FormatPatterns ==
    {<<"#", ",", "#", "#", "0">>,
     <<"#", ",", "#", "#", "#">>,
     <<"0", ".", "#", "#", "#", "#", "#">>,
     <<"#", ".", "#", "#", "#", "#", "#">>,
     <<"0", ".", "0", "0">>,
     <<"#", ",", "#", "#", "0", ".", "0", "0">>,
     <<"#", ",", "#", "#", "0", ".", "0">>,
     <<"0", ".", "0", "0", "%">>,
     <<"$", "#", ",", "#", "#", "0", ".", "0", "0">>,
     <<"¥", "#", ",", "#", "#", "0">>,
     <<"€", "#", ",", "#", "#", "0", ".", "0", "0">>,
     <<"£", "0">>,
     <<"y", "y", "y", "y", "-", "m", "m", "-", "d", "d">>,
     <<"Y", "Y", "Y", "Y", "-", "M", "M", "-", "D", "D">>,
     <<"h", "h", ":", "m", "m", ":", "s", "s">>,
     <<"d", "d", "/", "m", "m", "/", "y", "y", "y", "y", " ", "h", "h", ":", "m", "m">>,
     <<"m", "/", "d", "/", "y", "y">>,
     <<"d", "-", "m", "m", "m">>,
     <<"h", ":", "m", ":", "s">>,
     <<"G", "e", "n", "e", "r", "a", "l">>,
     <<"#", "#", "#">>,
     <<"[", "$", "-", "4", "0", "9", "]", "0", ".", "0", "0">>,
     <<"0", ".", "0", "0", "E", "+", "0", "0">>}
    \cup SeqsUpTo(PatternChars, MaxPattern)

InitSheet ==
    /\ currentFields = <<>>
    /\ schemaFields = <<>>
    /\ pc = "idle"
    /\ diff = NoDiff
    /\ currentOrder = <<>>
    /\ result = NoResult
    /\ prevResult = NoResult
    /\ mode = "none"
    /\ origin = "sheet"
    /\ ApplyIdle
    /\ \/ \E data \in SeqsUpTo(SampleValues, MaxSamples) :
             eval = [NoEval EXCEPT !.fn = "InferColumnType", !.data = data, !.pc = "call"]
       \/ \E pattern \in FormatPatterns :
             eval = [NoEval EXCEPT !.fn = "InferTypeFromFormat", !.pattern = pattern, !.pc = "call"]
       \/ \E col \in 0..MaxColumn :
             eval = [NoEval EXCEPT !.fn = "ColumnToLetter", !.col = col, !.pc = "call"]

EvalInferColumnType ==
    /\ eval.fn = "InferColumnType" /\ eval.pc = "call"
    /\ eval' = [eval EXCEPT !.type = InferColumnType(eval.data), !.pc = "done"]
    /\ UNCHANGED <<plannerVars, applyVars>>

EvalInferTypeFromFormat ==
    /\ eval.fn = "InferTypeFromFormat" /\ eval.pc = "call"
    /\ eval' = [eval EXCEPT !.type = InferTypeFromFormat(eval.pattern), !.pc = "done"]
    /\ UNCHANGED <<plannerVars, applyVars>>

EvalColumnToLetter ==
    /\ eval.fn = "ColumnToLetter" /\ eval.pc = "call"
    /\ eval' = [eval EXCEPT !.letter = ColumnToLetter(eval.col), !.pc = "letter"]
    /\ UNCHANGED <<plannerVars, applyVars>>

(* the letter goes back through LetterToColumn *)
EvalLetterToColumn ==
    /\ eval.fn = "ColumnToLetter" /\ eval.pc = "letter"
    /\ eval' = [eval EXCEPT !.index = LetterToColumn(eval.letter), !.pc = "done"]
    /\ UNCHANGED <<plannerVars, applyVars>>

NextSheet ==
    \/ EvalInferColumnType
    \/ EvalInferTypeFromFormat
    \/ EvalColumnToLetter
    \/ EvalLetterToColumn

SpecSheet == InitSheet /\ [][NextSheet]_vars

----------------------------------------------------------------------------
(* A caller that hands applyChange the Add changes of a resource one at a  *)
(* time, in any order                                                      *)

MaxAddFields == 3

MaxAddHeaders == 2

MaxAdds == 3

AddFieldSet ==
    { SchemaField(<<"a">>, "string"), SchemaField(<<"b">>, "integer"),
      SchemaField(<<"c">>, "string") }

(* header cells: the names of the fields, a name of no field, an empty cell *)
AddHeaderCells == { f.Name : f \in AddFieldSet } \cup {<<"x">>, <<>>}

Injective(s) == \A i, j \in 1..Len(s) : s[i] = s[j] => i = j

(* the headers that are names of fields stand in the order of the fields *)
InSchemaOrder(headers, fields) ==
    \A i, j \in 1..Len(headers) :
        \A m, n \in 1..Len(fields) :
            (i < j /\ headers[i] = fields[m].Name /\ headers[j] = fields[n].Name) => m < n

(* a schema with distinct field names and a sheet whose named headers are  *)
(* distinct and follow the schema                                          *)
InitAdds ==
    /\ PlannerIdle
    /\ eval = NoEval
    /\ \E fields \in NonEmptySeqsUpTo(AddFieldSet, MaxAddFields),
          headers \in SeqsUpTo(AddHeaderCells, MaxAddHeaders) :
          /\ Injective(NamesOf(fields))
          /\ Injective(SelectSeq(headers, LAMBDA h : h # <<>>))
          /\ headers = DropEmptyTail(headers)
          /\ InSchemaOrder(headers, fields)
          /\ schemaConfig = [Resources |->
                <<[Name |-> <<"S">>, Path |-> UrlOf(<<"X">>), Fields |-> fields]>>]
          /\ store = [EmptyStore EXCEPT ![<<<<"X">>, <<"S">>>>] = SheetWith(headers)]
    /\ dryRun = FALSE
    /\ apc = "adds"
    /\ diffs = <<>>
    /\ unread = {}
    /\ ri = 1
    /\ ci = 0
    /\ applyResult = NoApplyResult
    /\ results = <<>>
    /\ calls = <<>>
    /\ attempts = <<>>
    /\ exit = "running"

(* the Add changes of the resource: its plan against no observed field *)
AddChanges ==
    ConvertDiffToResult(
        CompareFields(<<>>, convertSchemaFields(schemaConfig.Resources[1].Fields)),
        schemaConfig.Resources[1].Name).Changes

(* applyChange on any one of them *)
ApplyAnyAdd ==
    /\ apc = "adds"
    /\ Len(attempts) < MaxAdds
    /\ \E k \in 1..Len(AddChanges), fail \in Failures \ {"ClearValues"} :
          /\ fail # "none" => StoreFailures < MaxStoreFailures
          /\ LET change == AddChanges[k]
                 o      == applyChange(schemaConfig, store, change, fail)
             IN  /\ store' = o.Store
                 /\ calls' = calls \o o.Calls
                 /\ attempts' = Append(attempts,
                                       [Resource |-> 1, Change |-> change, Err |-> o.Err])
    /\ UNCHANGED <<schemaConfig, dryRun, apc, diffs, unread, ri, ci, applyResult, results, exit>>
    /\ UNCHANGED <<plannerVars, eval>>

NextAdds == ApplyAnyAdd

SpecAdds == InitAdds /\ [][NextAdds]_vars

----------------------------------------------------------------------------
(* Vocabulary of the properties, stated on the two input lists directly *)

HasName(fields, n) == \E i \in 1..Len(fields) : fields[i].Name = n

(* indices of the entries of fields whose name does / does not occur in other *)
KeptIndices(fields, other) == { i \in 1..Len(fields) : HasName(other, fields[i].Name) }

DroppedIndices(fields, other) == { i \in 1..Len(fields) : ~HasName(other, fields[i].Name) }

NthOf(I, k) == CHOOSE i \in I : Cardinality({ j \in I : j <= i }) = k

(* the subsequence of fields at the indices I, in list order *)
Restrict(fields, I) == [k \in 1..Cardinality(I) |-> fields[NthOf(I, k)]]

NoRepeat(fields) ==
    \A i, j \in 1..Len(fields) : fields[i].Name = fields[j].Name => i = j

(* the observed field a name is compared with: the last one of that name *)
ObservedAs(n) ==
    currentFields[CHOOSE i \in 1..Len(currentFields) :
                     /\ currentFields[i].Name = n
                     /\ \A j \in (i + 1)..Len(currentFields) : currentFields[j].Name # n]

SameStructure(f, g) ==
    f.Type = g.Type /\ f.Format = g.Format /\ f.Hidden = g.Hidden

AddNames == Range(NamesOf(diff.FieldsToAdd))

RemoveNames == Range(NamesOf(diff.FieldsToRemove))

ModifyNames == Range(NamesOf(diff.FieldsToModify))

ModifyCount(n) == Cardinality({ i \in 1..Len(diff.FieldsToModify) : diff.FieldsToModify[i].Name = n })

CommonNames == { n \in Names : HasName(currentFields, n) /\ HasName(schemaFields, n) }

(* the diff in hand is the result of CompareFields on the two input lists *)
Compared == pc # "input" /\ origin = "planner"

----------------------------------------------------------------------------
(* C1: after CompareFields, no field name occurs in more than one of       *)
(* FieldsToAdd, FieldsToRemove and FieldsToModify.                         *)
ThmC1 ==
    Compared =>
        /\ AddNames \cap RemoveNames = {}
        /\ AddNames \cap ModifyNames = {}
        /\ RemoveNames \cap ModifyNames = {}

WitC1 ==
    /\ pc = "compared"
    /\ diff.FieldsToAdd # <<>>
    /\ diff.FieldsToRemove # <<>>
    /\ diff.FieldsToModify # <<>>

(* C2: a name present in both lists gets exactly one Modify entry when its  *)
(* type/format or hidden flag differs, and no entry at all when every       *)
(* schema entry of that name is identical to every observed one.            *)
ClaimC2 ==
    Compared =>
        \A n \in CommonNames :
            LET differs == \E i \in 1..Len(schemaFields), j \in 1..Len(currentFields) :
                              /\ schemaFields[i].Name = n
                              /\ currentFields[j].Name = n
                              /\ ~SameStructure(schemaFields[i], currentFields[j])
            IN  /\ differs => ModifyCount(n) = 1
                /\ ~differs => (ModifyCount(n) = 0 /\ n \notin AddNames /\ n \notin RemoveNames)

(* C3: FieldsToAdd is the subsequence of the schema list whose names are    *)
(* absent from the observed list, in schema order, each entry being the     *)
(* schema field itself (Position included).                                 *)
ThmC3 ==
    Compared =>
        diff.FieldsToAdd = Restrict(schemaFields, DroppedIndices(schemaFields, currentFields))

WitC3 ==
    /\ pc = "compared"
    /\ Len(diff.FieldsToAdd) = 1
    /\ Len(schemaFields) = 2
    /\ diff.FieldsToAdd[1].Position = 1
    /\ currentFields # <<>>

(* the schema entries that are observed and show no difference *)
UnchangedEntries ==
    { i \in 1..Len(schemaFields) :
        /\ HasName(currentFields, schemaFields[i].Name)
        /\ SameStructure(schemaFields[i], ObservedAs(schemaFields[i].Name)) }

(* the names present in both lists with no difference *)
UnchangedNames == { schemaFields[i].Name : i \in UnchangedEntries }

(* C4 as stated: |FieldsToAdd| + |unchanged names| = |schema fields|. *)
ClaimC4 ==
    Compared =>
        Len(diff.FieldsToAdd) + Cardinality(UnchangedNames) = Len(schemaFields)

(* C4 as amended: |FieldsToAdd| + |FieldsToModify| + the number of unchanged *)
(* schema entries = |schema fields|.                                         *)
ThmC4 ==
    Compared =>
        Len(diff.FieldsToAdd) + Len(diff.FieldsToModify) + Cardinality(UnchangedEntries)
            = Len(schemaFields)

WitC4 ==
    /\ pc = "compared"
    /\ Len(diff.FieldsToModify) = 1
    /\ Cardinality(UnchangedEntries) = 1

(* C5: FieldsToRemove is the subsequence of the observed list whose names   *)
(* are absent from the schema list, in observed order.                      *)
ThmC5 ==
    Compared =>
        diff.FieldsToRemove = Restrict(currentFields, DroppedIndices(currentFields, schemaFields))

WitC5 ==
    /\ pc = "compared"
    /\ Len(diff.FieldsToRemove) = 2
    /\ diff.FieldsToRemove[1].Name # diff.FieldsToRemove[2].Name
    /\ Len(currentFields) = 3
    /\ currentFields[2].Name \notin RemoveNames

(* the two name sequences of the reorder test, from the inputs *)
ExpectedNames == NamesOf(Restrict(schemaFields, KeptIndices(schemaFields, currentFields)))

CurrentNames == NamesOf(Restrict(currentFields, KeptIndices(currentFields, schemaFields)))

Min(x, y) == IF x <= y THEN x ELSE y

DifferAtSomePosition(s, t) == \E i \in 1..Min(Len(s), Len(t)) : s[i] # t[i]

(* C6: the reorder flag is set iff the schema-ordered common names and the  *)
(* observed-ordered common names differ at some position (stated here for   *)
(* schemas whose field names are unique, as the data model requires).       *)
ClaimC6 ==
    (Compared /\ NoRepeat(schemaFields)) =>
        (diff.FieldsToReorder <=> DifferAtSomePosition(ExpectedNames, CurrentNames))

(* C7 as stated: ExpectedOrder and CurrentOrder always have the same length *)
(* (stated here for schemas whose field names are unique).                   *)
ClaimC7 ==
    (Compared /\ NoRepeat(schemaFields)) => Len(diff.ExpectedOrder) = Len(currentOrder)

(* C7 as amended: ExpectedOrder has one entry per schema field whose name   *)
(* is observed, CurrentOrder one per observed field whose name is in the    *)
(* schema; the two lengths agree when no name is repeated in either list.   *)
ThmC7 ==
    Compared =>
        /\ Len(diff.ExpectedOrder) = Cardinality(KeptIndices(schemaFields, currentFields))
        /\ Len(currentOrder) = Cardinality(KeptIndices(currentFields, schemaFields))
        /\ (NoRepeat(currentFields) /\ NoRepeat(schemaFields))
              => Len(diff.ExpectedOrder) = Len(currentOrder)

WitC7 ==
    /\ pc = "compared"
    /\ NoRepeat(currentFields)
    /\ NoRepeat(schemaFields)
    /\ Len(diff.ExpectedOrder) = 2
    /\ diff.FieldsToRemove # <<>>
    /\ diff.FieldsToReorder

----------------------------------------------------------------------------
(* Vocabulary of the plan properties *)

(* the field a change is about, read from its payload *)
ChangeName(c) == IF c.Type = "REMOVE" THEN c.OldValue[2].Name ELSE c.NewValue[2].Name

FieldChanges(r) == SelectSeq(r.Changes, LAMBDA c : c.Type # "REORDER")

SchemaIndex(n) == CHOOSE i \in 1..Len(schemaFields) :
                     /\ schemaFields[i].Name = n
                     /\ \A j \in 1..(i - 1) : schemaFields[j].Name # n

ObservedIndex(n) == CHOOSE i \in 1..Len(currentFields) :
                       /\ currentFields[i].Name = n
                       /\ \A j \in 1..(i - 1) : currentFields[j].Name # n

(* changes of schema names come first and follow the schema order *)
InCanonicalOrder(changes) ==
    \A i, j \in 1..Len(changes) :
        (i < j /\ HasName(schemaFields, ChangeName(changes[j]))) =>
            /\ HasName(schemaFields, ChangeName(changes[i]))
            /\ SchemaIndex(ChangeName(changes[i])) <= SchemaIndex(ChangeName(changes[j]))

(* C8: with a canonical order supplied, the changes of the names in that    *)
(* order are emitted in that order, the others after them, and a second run *)
(* on the same inputs yields the same Change sequence.                      *)
ClaimC8 ==
    (pc = "planned" /\ mode = "ordered" /\ Len(schemaFields) > 0) =>
        /\ InCanonicalOrder(FieldChanges(result))
        /\ prevResult # NoResult => result.Changes = prevResult.Changes

AddChangesOf(fields) == [i \in 1..Len(fields) |-> AddChange(SheetName, fields[i])]

RemoveChangesOf(fields) == [i \in 1..Len(fields) |-> RemoveChange(SheetName, fields[i])]

ModifyChangesOf(fieldDiffs) == [i \in 1..Len(fieldDiffs) |-> ModifyChange(SheetName, fieldDiffs[i])]

(* the arrangements of the fields in which Position never decreases *)
AscendingArrangements(fields) ==
    { [i \in 1..Len(fields) |-> fields[p[i]]] : p \in
         { q \in Perms(1..Len(fields)) :
              \A i, j \in 1..Len(fields) :
                  i < j => fields[q[i]].Position <= fields[q[j]].Position } }

IsPermutationOf(s, t) ==
    /\ Len(s) = Len(t)
    /\ \E p \in Perms(1..Len(s)) : \A i \in 1..Len(s) : s[i] = t[p[i]]

ExpandBy(order, pool) ==
    Flatten([i \in 1..Len(order) |->
                SelectSeq(pool, LAMBDA c : ChangeName(c) = ChangeName(order[i]))])

(* the schema entries that are observed and differ from the observed field *)
ModifiedEntries ==
    { i \in 1..Len(schemaFields) :
        /\ HasName(currentFields, schemaFields[i].Name)
        /\ ~SameStructure(schemaFields[i], ObservedAs(schemaFields[i].Name)) }

ReorderIndices(changes) == { i \in 1..Len(changes) : changes[i].Type = "REORDER" }

(* C10: a plan holds a Reorder change iff the diff's reorder flag is set;   *)
(* then there is exactly one, it is the last change, its path is the bare   *)
(* resource name and its payload is ExpectedOrder.                          *)
ThmC10 ==
    pc = "planned" =>
        /\ (ReorderIndices(result.Changes) # {}) <=> diff.FieldsToReorder
        /\ diff.FieldsToReorder =>
              /\ ReorderIndices(result.Changes) = {Len(result.Changes)}
              /\ result.Changes[Len(result.Changes)].Path = SheetName
              /\ result.Changes[Len(result.Changes)].NewValue = <<"Order", diff.ExpectedOrder>>

WitC10 ==
    /\ pc = "planned"
    /\ diff.FieldsToReorder
    /\ Len(result.Changes) >= 3
    /\ result.Changes[Len(result.Changes)].Type = "REORDER"
    /\ diff.ExpectedOrder # <<>>

----------------------------------------------------------------------------
(* Summary of a plan *)

UpToDate(d) ==
    /\ d.FieldsToAdd = <<>>
    /\ d.FieldsToRemove = <<>>
    /\ d.FieldsToModify = <<>>
    /\ ~d.FieldsToReorder

(* the four sentences a summary can hold, in the order add, remove, modify, *)
(* reordering, and the indices of those whose part of the diff is not empty *)
SummarySentences(d) ==
    << <<ToString(Len(d.FieldsToAdd)), " field(s) to add">>,
       <<ToString(Len(d.FieldsToRemove)), " field(s) to remove">>,
       <<ToString(Len(d.FieldsToModify)), " field(s) to modify">>,
       <<"fields need reordering">> >>

NonZeroParts(d) ==
    { i \in 1..4 : \/ i = 1 /\ d.FieldsToAdd # <<>>
                   \/ i = 2 /\ d.FieldsToRemove # <<>>
                   \/ i = 3 /\ d.FieldsToModify # <<>>
                   \/ i = 4 /\ d.FieldsToReorder }

(* the sentences at the indices I, in index order, separated by ", " *)
Listed(d, I) ==
    Flatten([k \in 1..Cardinality(I) |->
                (IF k = 1 THEN <<>> ELSE <<", ">>) \o SummarySentences(d)[NthOf(I, k)]])

(* C11 as stated: an empty diff gives HasChanges = FALSE and the summary  *)
(* "Resource 'X' is up to date"; any other diff gives a summary listing   *)
(* its non-zero parts in the order add, remove, modify, reordering.       *)
ClaimC11 ==
    pc = "planned" =>
        IF UpToDate(diff)
        THEN /\ ~result.HasChanges
             /\ result.Summary = <<"Resource '">> \o SheetName \o <<"' is up to date">>
        ELSE result.Summary = <<"Sheet '">> \o SheetName \o <<"': ">>
                                 \o Listed(diff, NonZeroParts(diff))

(* C11, amended: the summary of an empty diff is "Sheet 'X' is up to date" *)
(* with HasChanges = FALSE; the summary of any other diff is "Sheet 'X': " *)
(* followed by the non-zero parts in the order add, remove, modify,        *)
(* reordering, separated by ", ".                                          *)
ThmC11 ==
    pc = "planned" =>
        IF UpToDate(diff)
        THEN /\ ~result.HasChanges
             /\ result.Changes = <<>>
             /\ result.Summary = <<"Sheet '">> \o SheetName \o <<"' is up to date">>
        ELSE /\ result.HasChanges
             /\ result.Summary = <<"Sheet '">> \o SheetName \o <<"': ">>
                                    \o Listed(diff, NonZeroParts(diff))

WitC11 ==
    /\ pc = "planned"
    /\ origin = "planner"
    /\ NonZeroParts(diff) = {2, 3, 4}
    /\ prevResult.Summary = result.Summary

----------------------------------------------------------------------------
(* Vocabulary of the properties of the apply command *)

(* the resources whose Apply call has returned *)
Applied == 1..Len(results)

(* the calls of the sheet client that change a spreadsheet *)
Mutations == { k \in 1..Len(calls) : calls[k].Op \in {"InsertColumn", "UpdateValues", "ClearValues"} }

(* C12: on a dry run, Apply on a plan with changes makes no InsertColumn,  *)
(* UpdateValues or ClearValues call and leaves every spreadsheet as it is; *)
(* its result has Success = TRUE and ChangesApplied equal to the number of *)
(* changes of the plan.                                                    *)
ThmC12 ==
    /\ [](dryRun =>
            /\ Mutations = {}
            /\ attempts = <<>>
            /\ \A i \in Applied :
                  diffs[i].HasChanges =>
                      /\ results[i].Success
                      /\ results[i].Errors = <<>>
                      /\ results[i].ChangesApplied = Len(diffs[i].Changes))
    /\ [][dryRun => store' = store]_vars

WitC12 ==
    /\ dryRun
    /\ apc = "exit"
    /\ \E i \in Applied :
          /\ Len(diffs[i].Changes) >= 3
          /\ results[i].ChangesApplied = Len(diffs[i].Changes)
          /\ \E j, k \in 1..Len(diffs[i].Changes) :
                diffs[i].Changes[j].Type = "ADD" /\ diffs[i].Changes[k].Type = "REMOVE"

(* the applyChange calls of the Apply call for resource i, in call order *)
AttemptsOf(i) == SelectSeq(attempts, LAMBDA t : t.Resource = i)

ChangesOf(ts) == [k \in 1..Len(ts) |-> ts[k].Change]

FailedOf(ts) == SelectSeq(ts, LAMBDA t : t.Err # "nil")

ErrorsOf(ts) ==
    [k \in 1..Len(FailedOf(ts)) |->
        [Path |-> FailedOf(ts)[k].Change.Path, Err |-> FailedOf(ts)[k].Err]]

(* the columns with one blank column put before the 0-based index *)
WithBlankAt(cols, index) ==
    [k \in 1..(Len(cols) + 1) |->
        IF k <= index THEN cols[k]
        ELSE IF k = index + 1 THEN BlankColumn
        ELSE cols[k - 1]]

(* the calls made by the step that is being taken *)
NewCalls == SubSeq(calls', Len(calls) + 1, Len(calls'))

(* C13: outside a dry run, Apply calls applyChange once for every change   *)
(* of the plan, in plan order, whether or not earlier changes failed; each *)
(* failure is recorded as an error, the others are counted as applied;     *)
(* Success holds iff no change failed; and a failing change undoes nothing:*)
(* it leaves the spreadsheets as they were, but for a column it inserted.  *)
ThmC13 ==
    /\ [](~dryRun =>
            /\ \A i \in Applied :
                  diffs[i].HasChanges =>
                      /\ ChangesOf(AttemptsOf(i)) = diffs[i].Changes
                      /\ results[i].Errors = ErrorsOf(AttemptsOf(i))
                      /\ results[i].ChangesApplied
                            = Len(AttemptsOf(i)) - Len(FailedOf(AttemptsOf(i)))
                      /\ results[i].Success <=> FailedOf(AttemptsOf(i)) = <<>>
            /\ apc = "change" =>
                  /\ ChangesOf(AttemptsOf(ri)) = SubSeq(diffs[ri].Changes, 1, ci - 1)
                  /\ applyResult.Errors = ErrorsOf(AttemptsOf(ri)))
    /\ [][(Len(attempts') = Len(attempts) + 1 /\ attempts'[Len(attempts')].Err # "nil") =>
             \/ store' = store
             \/ \E k \in 1..Len(NewCalls) :
                   /\ NewCalls[k].Op = "InsertColumn"
                   /\ NewCalls[k].Ok
                   /\ store' = [store EXCEPT ![<<NewCalls[k].ID, NewCalls[k].Sheet>>] =
                                   WithBlankAt(@, NewCalls[k].Column)]]_vars

WitC13 ==
    /\ ~dryRun
    /\ apc = "exit"
    /\ \E i \in Applied :
          /\ ~results[i].Success
          /\ results[i].ChangesApplied >= 2
          /\ \E j, k, l \in 1..Len(AttemptsOf(i)) :
                /\ j < k /\ k < l
                /\ AttemptsOf(i)[j].Err = "nil" /\ AttemptsOf(i)[j].Change.Type = "ADD"
                /\ AttemptsOf(i)[k].Err # "nil"
                /\ AttemptsOf(i)[l].Err = "nil" /\ AttemptsOf(i)[l].Change.Type = "REMOVE"
                /\ \E c \in 1..Len(store[<<<<"X">>, <<"S">>>>]) :
                      store[<<<<"X">>, <<"S">>>>][c].Header
                         = AttemptsOf(i)[j].Change.NewValue[2].Name

(* the step being taken is an applyChange call on a change of the given type *)
Attempting(type) ==
    /\ Len(attempts') = Len(attempts) + 1
    /\ attempts'[Len(attempts')].Change.Type = type

Attempted == attempts'[Len(attempts')]

MinOf(S) == CHOOSE n \in S : \A m \in S : n <= m

(* the first resource of the schema with the given name *)
FirstNamed(name) ==
    schemaConfig.Resources[MinOf({ i \in 1..Len(schemaConfig.Resources) :
                                     schemaConfig.Resources[i].Name = name })]

(* the 0-based place for a new field f among headers, by the schema order  *)
(* fields: before the first field after f that is among the headers, at    *)
(* its first header; at the end when there is none                         *)
PlaceOf(f, fields, headers) ==
    LET p     == MinOf({ i \in 1..Len(fields) : fields[i].Name = f })
        later == { i \in (p + 1)..Len(fields) :
                     \E j \in 1..Len(headers) : headers[j] = fields[i].Name }
    IN  IF later = {} THEN Len(headers)
        ELSE MinOf({ j \in 1..Len(headers) : headers[j] = fields[MinOf(later)].Name }) - 1

(* C14: every call that addField makes for a field f names the column at  *)
(* the insertion index: the current header index of the first schema field *)
(* after f that is among the current headers, the current header count if  *)
(* there is none; when the Add succeeds, f is the header of that column.   *)
ThmC14 ==
    [][(Attempting("ADD") /\ NewCalls # <<>>) =>
          LET f       == Attempted.Change.NewValue[2].Name
              id      == NewCalls[1].ID
              sheet   == NewCalls[1].Sheet
              headers == GetHeaders(store, id, sheet)
              place   == PlaceOf(f, FirstNamed(sheet).Fields, headers)
          IN  /\ \A k \in 1..Len(NewCalls) :
                    /\ NewCalls[k].ID = id
                    /\ NewCalls[k].Sheet = sheet
                    /\ NewCalls[k].Column = place
              /\ Attempted.Err = "nil" =>
                    /\ Len(store'[<<id, sheet>>]) >= place + 1
                    /\ store'[<<id, sheet>>][place + 1].Header = f]_vars

WitC14 ==
    /\ NamesOf(schemaConfig.Resources[1].Fields) = << <<"a">>, <<"b">>, <<"c">> >>
    /\ GetHeaders(store, <<"X">>, <<"S">>) = << <<>>, <<"a">>, <<"c">> >>
    /\ Len(calls) = 2
    /\ calls[1].Op = "InsertColumn" /\ calls[1].Column = 1 /\ calls[1].Ok
    /\ calls[2].Op = "UpdateValues" /\ calls[2].Column = 1 /\ calls[2].Ok
    /\ calls[2].Value = <<"a">>

(* the text of a change path before its first "." *)
Before(path) == SubSeq(path, 1, MinOf({ i \in 1..Len(path) : path[i] = "." }) - 1)

Named(name) == \E i \in 1..Len(schemaConfig.Resources) : schemaConfig.Resources[i].Name = name

(* C15: an Add change for a field whose name is among the current headers *)
(* of the sheet it is applied to (the headers addField reads) fails with   *)
(* "field already exists"; the store is left as it was and no mutating     *)
(* call is made. When the headers cannot be read there are no current      *)
(* headers to speak of and the claim says nothing.                         *)
ThmC15 ==
    [][(/\ Attempting("ADD")
        /\ Named(Before(Attempted.Change.Path))
        /\ ExtractSpreadsheetID(FirstNamed(Before(Attempted.Change.Path)).Path).Err = "nil"
        /\ Attempted.Err # "failed to get headers"
        /\ LET name == Before(Attempted.Change.Path)
               id   == ExtractSpreadsheetID(FirstNamed(name).Path).ID
           IN  \E j \in 1..Len(store[<<id, name>>]) :
                  store[<<id, name>>][j].Header = Attempted.Change.NewValue[2].Name)
       => /\ Attempted.Err = "field already exists"
          /\ store' = store
          /\ NewCalls = <<>>]_vars

WitC15 ==
    /\ Len(attempts) = 1
    /\ attempts[1].Change.Type = "ADD"
    /\ attempts[1].Err = "field already exists"
    /\ calls = <<>>
    /\ 1 \in unread
    /\ \E j \in 1..Len(store[<< <<"X">>, <<"S">> >>]) :
          store[<< <<"X">>, <<"S">> >>][j].Header = attempts[1].Change.NewValue[2].Name

(* the column at 1-based position i of a sheet; the grid is blank beyond  *)
(* the last column that holds anything                                     *)
ColumnAt(cols, i) == IF i <= Len(cols) THEN cols[i] ELSE BlankColumn

(* C16: applying a Remove change for field f makes at most one call, a     *)
(* ClearValues of the header cell of the first column whose header is f;   *)
(* that header becomes empty, every other header and every data cell stays *)
(* at its position (no column appears, disappears or moves), every other   *)
(* sheet is untouched, and no call of the applier is a column deletion.    *)
ThmC16 ==
    /\ [](\A k \in 1..Len(calls) : calls[k].Op # "DeleteColumn")
    /\ [][Attempting("REMOVE") =>
          /\ Len(NewCalls) <= 1
          /\ NewCalls = <<>> => store' = store
          /\ NewCalls # <<>> =>
                LET key  == <<NewCalls[1].ID, NewCalls[1].Sheet>>
                    f    == Attempted.Change.OldValue[2].Name
                    cols == store[key]
                    at   == { i \in 1..Len(cols) : cols[i].Header = f }
                IN  /\ NewCalls[1].Op = "ClearValues"
                    /\ at # {}
                    /\ NewCalls[1].Column = MinOf(at) - 1
                    /\ \A k \in DOMAIN store \ {key} : store'[k] = store[k]
                    /\ Len(store'[key]) <= Len(cols)
                    /\ \A i \in 1..Len(cols) :
                          /\ ColumnAt(store'[key], i).Cell = cols[i].Cell
                          /\ i # MinOf(at) => ColumnAt(store'[key], i).Header = cols[i].Header
                    /\ ColumnAt(store'[key], MinOf(at)).Header =
                          IF NewCalls[1].Ok THEN <<>> ELSE f
                    /\ NewCalls[1].Ok <=> Attempted.Err = "nil"]_vars

WitC16 ==
    /\ Len(attempts) = 2
    /\ attempts[2].Change.Type = "REMOVE"
    /\ attempts[2].Change.OldValue[2].Name = <<"a">>
    /\ attempts[2].Err = "nil"
    /\ calls[Len(calls)].Op = "ClearValues" /\ calls[Len(calls)].Column = 0
    /\ Len(store[<< <<"X">>, <<"S">> >>]) = 3
    /\ store[<< <<"X">>, <<"S">> >>][1] = [Header |-> <<>>, Cell |-> <<"r", "1">>]
    /\ store[<< <<"X">>, <<"S">> >>][2] = [Header |-> <<"a">>, Cell |-> <<"r", "2">>]

(* C17: applying a Modify change leaves the store as it was, makes no     *)
(* mutating call, and records no error for the change.                     *)
ClaimC17 ==
    [][Attempting("MODIFY") =>
          /\ store' = store
          /\ NewCalls = <<>>
          /\ Attempted.Err = "nil"
          /\ applyResult'.Errors = applyResult.Errors]_vars

(* C18: applying a Reorder change leaves the store as it was, makes no    *)
(* mutating call and records no error for the change; a resource whose     *)
(* other changes were all applied without error ends with Success.         *)
ClaimC18 ==
    /\ [][Attempting("REORDER") =>
             /\ store' = store
             /\ NewCalls = <<>>
             /\ Attempted.Err = "nil"
             /\ applyResult'.Errors = applyResult.Errors]_vars
    /\ [](\A i \in Applied :
             (\A k \in 1..Len(attempts) :
                 (attempts[k].Resource = i /\ attempts[k].Change.Type # "REORDER")
                    => attempts[k].Err = "nil")
             => results[i].Success)

(* the plan of ApplyAll has just been made: no change has been applied yet *)
Planned == apc = "resource" /\ ri = 1

AddsOf(d) == SelectSeq(d.Changes, LAMBDA c : c.Type = "ADD")

(* the non-empty headers of the sheet of resource i *)
HeaderNamesOf(i) ==
    LET r    == schemaConfig.Resources[i]
        cols == store[<<ExtractSpreadsheetID(r.Path).ID, r.Name>>]
    IN  { cols[j].Header : j \in 1..Len(cols) } \ {<<>>}

(* C19: PlanAll yields one plan per resource. The plan of a resource whose *)
(* headers could not be read is the plan against no observed field: every  *)
(* change of it is the Add of a schema field and every schema field has    *)
(* its Add change. The plan of every other resource is made from the       *)
(* headers of its own sheet: it adds the schema fields not among them.     *)
ThmC19 ==
    Planned =>
       /\ Len(diffs) = Len(schemaConfig.Resources)
       /\ \A i \in 1..Len(diffs) :
             LET r      == schemaConfig.Resources[i]
                 fields == convertSchemaFields(r.Fields)
             IN  IF i \in unread
                 THEN /\ diffs[i] = ConvertDiffToResult(CompareFields(<<>>, fields), r.Name)
                      /\ \A k \in 1..Len(diffs[i].Changes) :
                            /\ diffs[i].Changes[k].Type = "ADD"
                            /\ \E n \in 1..Len(fields) :
                                  diffs[i].Changes[k].NewValue = <<"FieldInfo", fields[n]>>
                      /\ \A n \in 1..Len(fields) :
                            \E k \in 1..Len(diffs[i].Changes) :
                               /\ diffs[i].Changes[k].NewValue = <<"FieldInfo", fields[n]>>
                               /\ diffs[i].Changes[k].Path = r.Name \o <<".">> \o fields[n].Name
                 ELSE { AddsOf(diffs[i])[k].NewValue[2].Name : k \in 1..Len(AddsOf(diffs[i])) }
                         = Range(NamesOf(fields)) \ HeaderNamesOf(i)

WitC19 ==
    /\ Planned
    /\ Len(diffs) = 2
    /\ unread = {1}
    /\ <<"a">> \in HeaderNamesOf(1)
    /\ Len(diffs[1].Changes) = 1 /\ diffs[1].Changes[1].Type = "ADD"
    /\ <<"a">> \in HeaderNamesOf(2)
    /\ AddsOf(diffs[2]) = <<>>

(* the command has ended after a plan with changes was confirmed *)
EndedConfirmed ==
    /\ apc = "exit"
    /\ exit \notin {"failed to generate plan", "failed to read response"}
    /\ ri >= 1 \/ exit = "failed to apply changes"

(* C20: when the apply command ends after its plan was confirmed, it       *)
(* returns an error if and only if applyChange failed for some change of    *)
(* some resource; after a dry run it returns no error.                      *)
ThmC20 ==
    EndedConfirmed =>
       /\ exit # "nil" <=> \E k \in 1..Len(attempts) : attempts[k].Err # "nil"
       /\ exit # "nil" <=> \E i \in Applied : ~results[i].Success
       /\ dryRun => exit = "nil"
       /\ Len(results) = Len(schemaConfig.Resources)

WitC20 ==
    /\ EndedConfirmed
    /\ exit = "some changes failed to apply"
    /\ Len(results) = 2
    /\ results[1].Success /\ results[1].ChangesApplied = 1
    /\ ~results[2].Success
    /\ Len(FailedOf(attempts)) = 1

----------------------------------------------------------------------------
(* The sheet package's pure functions *)

Evaluated(fn) == eval.fn = fn /\ eval.pc = "done"

(* what a sample is, once stringified and trimmed *)
IsBooleanText(v) == ToLower(TrimSpace(v)) \in {<<"t", "r", "u", "e">>, <<"f", "a", "l", "s", "e">>}

IsDateText(v) == isDateTime(TrimSpace(v))

IsNumericText(v) == isNumeric(TrimSpace(v))

IsOtherText(v) ==
    TrimSpace(v) # <<>> /\ ~IsBooleanText(v) /\ ~IsNumericText(v) /\ ~IsDateText(v)

NonNull(data) == { i \in 1..Len(data) : data[i] # Nil }

(* the classification by priority *)
ClassOf(data) ==
    LET some(P(_)) == \E i \in NonNull(data) : P(data[i])
        dotted(v)  == Contains(v, ".")
    IN  IF some(IsDateText) /\ \A i \in NonNull(data) : IsDateText(data[i]) THEN "datetime"
        ELSE IF some(IsOtherText) THEN "string"
        ELSE IF some(IsNumericText) THEN (IF some(dotted) THEN "number" ELSE "integer")
        ELSE IF some(IsBooleanText) THEN "boolean"
        ELSE "string"

(* C21: InferColumnType skips the null entries and classifies the others,  *)
(* trimmed, by priority: datetime when there is a datetime and every        *)
(* non-null value is one; else string when some non-empty value is neither  *)
(* boolean, numeric nor datetime; else, when some value is numeric, number  *)
(* if some sample holds a decimal point and integer if none does; else      *)
(* boolean when some value is true/false; else string. One unclassifiable   *)
(* value gives string whatever the other samples are.                       *)
ThmC21 ==
    Evaluated("InferColumnType") =>
       /\ eval.type = ClassOf(eval.data)
       /\ (\E i \in NonNull(eval.data) : IsOtherText(eval.data[i])) => eval.type = "string"

WitC21 ==
    /\ Evaluated("InferColumnType")
    /\ eval.data = <<Nil, <<"1", "2">>, <<"2", "0", "2", "4", "-", "0", "1", "-", "1", "5", "T", "1", "0", ":", "3", "0", ":", "0", "0", ".", "5">>>>
    /\ eval.type = "number"

(* a date or time token: yy, mm, dd, hh or ss in either case (yyyy holds yy) *)
HasDateToken(pattern) ==
    \E i \in 1..(Len(pattern) - 1) :
        /\ ToLower(<<pattern[i]>>) = ToLower(<<pattern[i + 1]>>)
        /\ ToLower(<<pattern[i]>>)[1] \in {"y", "m", "d", "h", "s"}

HasPercentOrCurrency(pattern) ==
    \E i \in 1..Len(pattern) : pattern[i] \in {"%", "$", "¥", "€", "£"}

ExactPattern(pattern) ==
    pattern \in IntegerPatterns \cup NumberPatterns \cup {<<"@">>}

(* C22: InferTypeFromFormat gives integer for the exact integer patterns,  *)
(* number for the exact decimal patterns, string for "@"; for any other    *)
(* pattern datetime when it holds a date or time token in either case,     *)
(* else number when it holds "%" or a currency symbol, else the empty      *)
(* result; the result depends on the pattern alone and nothing else is     *)
(* changed by the call.                                                    *)
ThmC22 ==
    /\ [](Evaluated("InferTypeFromFormat") =>
            LET p == eval.pattern
            IN  /\ p \in IntegerPatterns => eval.type = "integer"
                /\ p \in NumberPatterns => eval.type = "number"
                /\ p = <<"@">> => eval.type = "string"
                /\ (~ExactPattern(p) /\ HasDateToken(p)) => eval.type = "datetime"
                /\ (~ExactPattern(p) /\ ~HasDateToken(p) /\ HasPercentOrCurrency(p))
                      => eval.type = "number"
                /\ (~ExactPattern(p) /\ ~HasDateToken(p) /\ ~HasPercentOrCurrency(p))
                      => eval.type = "")
    /\ [][eval.fn = "InferTypeFromFormat" =>
             /\ eval'.pattern = eval.pattern
             /\ UNCHANGED <<plannerVars, applyVars>>]_vars

WitC22 ==
    /\ Evaluated("InferTypeFromFormat")
    /\ eval.pattern = <<"M", "m", "%">>
    /\ eval.type = "datetime"

(* C26: for every column index n >= 0, LetterToColumn(ColumnToLetter(n))  *)
(* is n, and no other index has the letters of n.                          *)
ThmC26 ==
    /\ Evaluated("ColumnToLetter") => eval.index = eval.col
    /\ (eval.fn = "ColumnToLetter" /\ eval.pc \in {"letter", "done"}) =>
          /\ eval.letter # <<>>
          /\ \A m \in 0..MaxColumn : ColumnToLetter(m) = eval.letter => m = eval.col

WitC26 ==
    /\ Evaluated("ColumnToLetter")
    /\ eval.col = 702
    /\ eval.letter = <<"A", "A", "A">>
    /\ eval.index = 702

----------------------------------------------------------------------------
(* Add changes applied one at a time *)

AddedNames ==
    { attempts[k].Change.NewValue[2].Name :
        k \in { n \in 1..Len(attempts) : attempts[n].Err = "nil" } }

(* C23: starting from distinct names and headers whose schema names follow *)
(* the schema order, after any number of Add changes applied one at a time *)
(* in any order, each reading the headers again, the schema names among    *)
(* the headers still follow the schema order, every field added is among   *)
(* them, and no name occurs twice.                                         *)
ThmC23 ==
    apc = "adds" =>
       LET headers == GetHeaders(store, <<"X">>, <<"S">>)
           fields  == schemaConfig.Resources[1].Fields
       IN  /\ InSchemaOrder(headers, fields)
           /\ Injective(SelectSeq(headers, LAMBDA h : h # <<>>))
           /\ \A n \in AddedNames : \E i \in 1..Len(headers) : headers[i] = n

WitC23 ==
    /\ apc = "adds"
    /\ NamesOf(schemaConfig.Resources[1].Fields) = << <<"a">>, <<"b">>, <<"c">> >>
    /\ Len(attempts) = 3
    /\ \A k \in 1..3 : attempts[k].Err = "nil"
    /\ [k \in 1..3 |-> attempts[k].Change.NewValue[2].Name] = << <<"c">>, <<"a">>, <<"b">> >>
    /\ GetHeaders(store, <<"X">>, <<"S">>) = << <<"x">>, <<"a">>, <<"b">>, <<"c">> >>

OpsOf(cs) == [k \in 1..Len(cs) |-> cs[k].Op]

(* C24: when an Add change gets as far as its insertion index, a column    *)
(* insert is issued iff the index is smaller than the number of headers    *)
(* just read; the insert comes first and the header is written only after  *)
(* it succeeded; an append issues the header write alone. After a          *)
(* successful Add the columns from the index on have moved one to the      *)
(* right in the first case, and no column has moved in the second.         *)
ThmC24 ==
    [][(Attempting("ADD") /\ NewCalls # <<>>) =>
          LET f       == Attempted.Change.NewValue[2].Name
              key     == <<NewCalls[1].ID, NewCalls[1].Sheet>>
              cols    == store[key]
              headers == GetHeaders(store, key[1], key[2])
              place   == PlaceOf(f, FirstNamed(key[2]).Fields, headers)
              after   == store'[key]
              width   == Len(cols) + 2
          IN  /\ ("InsertColumn" \in Range(OpsOf(NewCalls))) <=> place < Len(headers)
              /\ place < Len(headers) =>
                    /\ OpsOf(NewCalls) \in {<<"InsertColumn">>, <<"InsertColumn", "UpdateValues">>}
                    /\ Len(NewCalls) = 2 <=> NewCalls[1].Ok
                    /\ Attempted.Err = "nil" =>
                          \A i \in 1..width :
                             ColumnAt(after, i) =
                                IF i = place + 1 THEN [Header |-> f, Cell |-> <<>>]
                                ELSE ColumnAt(WithBlankAt(cols, place), i)
              /\ place >= Len(headers) =>
                    /\ place = Len(headers)
                    /\ OpsOf(NewCalls) = <<"UpdateValues">>
                    /\ Attempted.Err = "nil" =>
                          \A i \in 1..width :
                             ColumnAt(after, i) =
                                IF i = place + 1 THEN [ColumnAt(cols, i) EXCEPT !.Header = f]
                                ELSE ColumnAt(cols, i)]_vars

WitC24 ==
    /\ Len(attempts) = 2
    /\ \A k \in 1..2 : attempts[k].Change.Type = "ADD" /\ attempts[k].Err = "nil"
    /\ OpsOf(calls) = <<"InsertColumn", "UpdateValues", "UpdateValues">>
    /\ calls[1].Column = 0 /\ calls[2].Column = 0 /\ calls[3].Column = 2
    /\ GetHeaders(store, <<"X">>, <<"S">>) = << <<"a">>, <<"b">>, <<"c">> >>

(* C25: when the column insert of an Add change succeeds and the header   *)
(* write then fails, the sheet is left with the blank column at the index  *)
(* (nothing is undone, and no call is made after the failed write), the    *)
(* change is recorded as an error of the result, Success is lost, and      *)
(* ChangesApplied is not raised.                                           *)
ThmC25 ==
    [][(/\ Attempting("ADD")
        /\ OpsOf(NewCalls) = <<"InsertColumn", "UpdateValues">>
        /\ NewCalls[1].Ok /\ ~NewCalls[2].Ok)
       => LET key == <<NewCalls[1].ID, NewCalls[1].Sheet>>
          IN  /\ store'[key] = WithBlankAt(store[key], NewCalls[1].Column)
              /\ \A k \in DOMAIN store \ {key} : store'[k] = store[k]
              /\ Attempted.Err = "failed to add field header"
              /\ applyResult'.Errors =
                    Append(applyResult.Errors,
                           [Path |-> Attempted.Change.Path, Err |-> Attempted.Err])
              /\ applyResult'.Success = FALSE
              /\ applyResult'.ChangesApplied = applyResult.ChangesApplied]_vars

WitC25 ==
    /\ apc = "exit"
    /\ exit = "some changes failed to apply"
    /\ Len(attempts) = 1
    /\ attempts[1].Change.Type = "ADD"
    /\ attempts[1].Err = "failed to add field header"
    /\ OpsOf(calls) = <<"InsertColumn", "UpdateValues">>
    /\ results[1].ChangesApplied = 0 /\ Len(results[1].Errors) = 1
    /\ store[<< <<"X">>, <<"S">> >>] =
          << BlankColumn, [Header |-> <<"c">>, Cell |-> <<"r", "1">>] >>

----------------------------------------------------------------------------
(* Which resource a change is applied to *)

(* the spreadsheet that the locator of resource i names *)
SpreadsheetOf(i) == ExtractSpreadsheetID(schemaConfig.Resources[i].Path).ID

DotFree == \A i \in 1..Len(schemaConfig.Resources) : ~Contains(schemaConfig.Resources[i].Name, ".")

(* C27: every mutating call made for a change of the plan of resource R    *)
(* goes to the spreadsheet that R's own locator names; stated here for the *)
(* schemas whose resource names hold no ".", which leaves two resources    *)
(* with one sheet name in two spreadsheets as the case at stake.           *)
ClaimC27 ==
    [][(DotFree /\ Len(attempts') = Len(attempts) + 1) =>
          \A k \in 1..Len(NewCalls) : NewCalls[k].ID = SpreadsheetOf(Attempted.Resource)]_vars

DistinctResourceNames ==
    \A i, j \in 1..Len(schemaConfig.Resources) :
        schemaConfig.Resources[i].Name = schemaConfig.Resources[j].Name => i = j

(* C28: an Add or Remove change of the plan of a resource is applied to    *)
(* that resource, whatever its name holds: applyChange finds a resource    *)
(* for it, and every call it makes names the resource's own sheet in the   *)
(* resource's own spreadsheet. Stated for schemas whose resource names are *)
(* distinct, so that a name denotes one resource.                          *)
ClaimC28 ==
    [][(/\ DistinctResourceNames
        /\ Attempting("ADD") \/ Attempting("REMOVE"))
       => /\ Attempted.Err # "resource not found for sheet"
          /\ \A k \in 1..Len(NewCalls) :
                /\ NewCalls[k].Sheet = schemaConfig.Resources[Attempted.Resource].Name
                /\ NewCalls[k].ID = SpreadsheetOf(Attempted.Resource)]_vars


----------------------------------------------------------------------------
(* C29: in a plan ConvertDiffToResult builds from a CompareFields result,   *)
(* the numbers of Add, Remove and Modify changes equal the lengths of       *)
(* FieldsToAdd, FieldsToRemove and FieldsToModify, repeated names included. *)
ClaimC29 ==
    (pc = "planned" /\ mode = "plain" /\ Compared) =>
        /\ Len(OfType(result.Changes, "ADD")) = Len(diff.FieldsToAdd)
        /\ Len(OfType(result.Changes, "REMOVE")) = Len(diff.FieldsToRemove)
        /\ Len(OfType(result.Changes, "MODIFY")) = Len(diff.FieldsToModify)


----------------------------------------------------------------------------
(* Apply has just returned for the resource before ri, on a real run *)
JustApplied ==
    /\ apc = "resource"
    /\ ri > 1
    /\ ~dryRun
    /\ diffs[ri - 1].HasChanges

(* every Add and Remove change of the plan of resource i succeeded *)
StructureSucceeded(i) ==
    /\ Len(AttemptsOf(i)) = Len(diffs[i].Changes)
    /\ \A k \in 1..Len(AttemptsOf(i)) :
          AttemptsOf(i)[k].Change.Type \in {"ADD", "REMOVE"} => AttemptsOf(i)[k].Err = "nil"

(* the sheet of resource i as it is now, compared with the schema again *)
Replanned(i) ==
    LET r == schemaConfig.Resources[i]
    IN  CompareFields(analyzeSheet(store, ExtractSpreadsheetID(r.Path).ID, r.Name, {}),
                      convertSchemaFields(r.Fields))

(* C30: after a real Apply in which every Add and Remove change of the     *)
(* plan succeeded, the non-empty headers compared with the same schema      *)
(* give no field to add and no field to remove (stated for the plans that   *)
(* were made from the headers read from the sheet).                         *)
ClaimC30 ==
    (JustApplied /\ (ri - 1) \notin unread /\ StructureSucceeded(ri - 1)) =>
        /\ Replanned(ri - 1).FieldsToAdd = <<>>
        /\ Replanned(ri - 1).FieldsToRemove = <<>>

====
